---- MODULE Spec2Model ----
(***************************************************************************)
(* Source-patching scripts of scripts/*.py, modelled on token sequences.   *)
(*                                                                         *)
(* A file is a sequence of tokens.  A token stands for one piece of text   *)
(* that the scripts search for as a whole (a section marker, a function    *)
(* signature, a registerBackLayout( opening, a newline) or for text they   *)
(* never look at ("x").  Positions are Python positions: 0-based, -1 for   *)
(* "not found", and slices clamp and wrap negative bounds as Python does.  *)
(***************************************************************************)
EXTENDS Integers, Sequences, FiniteSets, TLC

VARIABLES file, hist, limit

vars == <<file, hist, limit>>

(***************************************************************************)
(* Bounds of the model.                                                    *)
(***************************************************************************)
MaxLen == 4
MaxRuns == 2
MaxLenLuxury == 5
MaxLenFix == 4
MaxRunsFix == 1
MaxLenAll == 2
MaxRunsAll == 1
MaxFrags == 6
MaxLines == 5
MaxLinesCompany == 5
MaxBlock == 3
MaxSpace == 2
MaxRunsTheme == 1
MaxRunsGuard == 2
MaxBodyFrags == 2
MaxEnvLines == 2
MaxImages == 3

(***************************************************************************)
(* Python string primitives.                                               *)
(***************************************************************************)
Min2(a, b) == IF a < b THEN a ELSE b
Max2(a, b) == IF a > b THEN a ELSE b

\* Python's clamping of a slice bound i for a sequence of length n.
PyNorm(i, n) == IF i < 0 THEN Max2(i + n, 0) ELSE Min2(i, n)

\* content[a:b]
Slice(content, a, b) ==
    SubSeq(content, PyNorm(a, Len(content)) + 1, PyNorm(b, Len(content)))

\* content[a:]
SliceFrom(content, a) == Slice(content, a, Len(content))

\* content[:b]
SliceTo(content, b) == Slice(content, 0, b)

\* every token that contains the text registerBackLayout(
RegTokens ==
    {"reg:minimal", "reg:modern", "reg:classic", "reg:creative",
     "reg:luxury-divider", "reg:social-band", "reg:organic-pattern",
     "reg:celtic-stripe", "reg:premium-crest", "reg:gold-construct",
     "reg:clean-accent", "reg:corporate-chevron", "reg:cyan-tech",
     "reg:wave-gradient", "reg:zigzag-overlay"}

\* The text pat occurs in the token tok: a searched text is a token of its
\* own, the opening of a longer token (registerBackLayout( of every
\* registration, function layoutCorporateChevron of the full signature) or
\* the opening of a longer comment.
Contains(tok, pat) ==
    \/ tok = pat
    \/ pat = "registerBackLayout(" /\ tok \in RegTokens
    \/ pat = "function layoutCorporateChevron" /\ tok = "sig:corporate-chevron"
    \/ pat = "// Register" /\ tok = "// Register cyan-tech back layout"

\* the positions i with content[i:i+len(sub)] == sub and a <= i, i+len(sub) <= b
Occurrences(content, sub, a, b) ==
    { i \in PyNorm(a, Len(content)) .. (PyNorm(b, Len(content)) - Len(sub)) :
        \A k \in 1 .. Len(sub) : Contains(content[i + k], sub[k]) }

SetMin(S) == CHOOSE m \in S : \A o \in S : m <= o
SetMax(S) == CHOOSE m \in S : \A o \in S : m >= o

\* content.find(sub, a, b)
PyFind(content, sub, a, b) ==
    IF Occurrences(content, sub, a, b) = {} THEN -1
    ELSE SetMin(Occurrences(content, sub, a, b))

\* content.rfind(sub, a, b)
PyRFind(content, sub, a, b) ==
    IF Occurrences(content, sub, a, b) = {} THEN -1
    ELSE SetMax(Occurrences(content, sub, a, b))

\* content.find(sub)
Find(content, sub) == PyFind(content, sub, 0, Len(content))

\* content.find(sub, a)
FindFrom(content, sub, a) == PyFind(content, sub, a, Len(content))

\* all sequences over S of length at most n
RECURSIVE SeqsUpTo(_, _)
SeqsUpTo(S, n) ==
    IF n = 0 THEN {<<>>}
    ELSE LET shorter == SeqsUpTo(S, n - 1)
         IN  shorter \cup { Append(s, t) : s \in { q \in shorter : Len(q) = n - 1 }, t \in S }

(***************************************************************************)
(* The marker-delimited section rewriters.                                 *)
(***************************************************************************)
MINIMAL_MARKER  == <<"MIN">>
MODERN_MARKER   == <<"MOD">>
CLASSIC_MARKER  == <<"CLA">>
CREATIVE_MARKER == <<"CRE">>
LUXURY_MARKER   == <<"LUX">>

\* The new sections: the start marker, the front layout functions, the
\* registerBackLayout( blocks of the section, each closed by "\n});".
NEW_MINIMAL     == <<"MIN", "fn:minimal", "reg:minimal", "END">>
NEW_MODERN      == <<"MOD", "fn:modern", "reg:modern", "END">>
NEW_CLASSIC     == <<"CLA", "fn:classic", "reg:classic", "END">>
NEW_CLASSIC_V2  == <<"CLA", "fn:classic-v2", "reg:classic", "END">>
NEW_CREATIVE    == <<"CRE", "fn:creative", "reg:creative", "END">>

Rewriters == {"minimal", "modern", "classic", "classic-v2", "creative"}

StartMarker(s) ==
    CASE s = "minimal" -> MINIMAL_MARKER
      [] s = "modern" -> MODERN_MARKER
      [] s = "classic" -> CLASSIC_MARKER
      [] s = "classic-v2" -> CLASSIC_MARKER
      [] s = "creative" -> CREATIVE_MARKER

EndMarker(s) ==
    CASE s = "minimal" -> MODERN_MARKER
      [] s = "modern" -> CLASSIC_MARKER
      [] s = "classic" -> CREATIVE_MARKER
      [] s = "classic-v2" -> CREATIVE_MARKER
      [] s = "creative" -> LUXURY_MARKER

NewSection(s) ==
    CASE s = "minimal" -> NEW_MINIMAL
      [] s = "modern" -> NEW_MODERN
      [] s = "classic" -> NEW_CLASSIC
      [] s = "classic-v2" -> NEW_CLASSIC_V2
      [] s = "creative" -> NEW_CREATIVE

\* Mutants of the splice: the end marker is dropped with the old section;
\* the old start marker is kept in front of the new section.
SpliceDropsEndMarker(content, start_idx, new_section, end_idx) ==
    SliceTo(content, start_idx) \o new_section \o SliceFrom(content, end_idx + 1)

SpliceKeepsStartMarker(content, start_idx, new_section, end_idx) ==
    SliceTo(content, start_idx + 1) \o new_section \o SliceFrom(content, end_idx)

\* content[:start_idx] + NEW_SECTION + content[end_idx:]
Splice(content, start_idx, new_section, end_idx) ==
    SliceTo(content, start_idx) \o new_section \o SliceFrom(content, end_idx)

\* Mutant of the run: the start marker's check is missing.
RewriteRunNoStartCheck(s, content) ==
    LET start_idx == Find(content, StartMarker(s))
        end_idx   == Find(content, EndMarker(s))
    IN  IF end_idx = -1
        THEN [script |-> s, status |-> "error", start |-> start_idx, end |-> end_idx,
              before |-> content, after |-> content]
        ELSE [script |-> s, status |-> "ok", start |-> start_idx, end |-> end_idx,
              before |-> content,
              after |-> SliceTo(content, start_idx) \o NewSection(s)
                            \o SliceFrom(content, end_idx)]

\* One run of a section rewriter on content: the marker lookup, the two
\* checks (exit(1), RuntimeError or the ValueError of str.index) and the
\* splice.  The file is opened for writing only when status is "ok".
RewriteRun(s, content) ==
    LET start_idx == Find(content, StartMarker(s))
        end_idx   == Find(content, EndMarker(s))
    IN  IF start_idx = -1 \/ end_idx = -1
        THEN [script |-> s, status |-> "error", start |-> start_idx, end |-> end_idx,
              before |-> content, after |-> content]
        ELSE [script |-> s, status |-> "ok", start |-> start_idx, end |-> end_idx,
              before |-> content,
              after |-> Splice(content, start_idx, NewSection(s), end_idx)]

Rewrite(s) ==
    /\ Len(hist) < limit
    /\ hist' = Append(hist, RewriteRun(s, file))
    /\ file' = RewriteRun(s, file).after
    /\ UNCHANGED limit

RewriteMinimal   == Rewrite("minimal")
RewriteModern    == Rewrite("modern")
RewriteClassic   == Rewrite("classic")
RewriteClassicV2 == Rewrite("classic-v2")
RewriteCreative  == Rewrite("creative")

SectionTokens == {"MIN", "MOD", "CLA", "CRE", "LUX", "x"}

InitRewrite ==
    /\ file \in SeqsUpTo(SectionTokens, MaxLen)
    /\ hist = <<>>
    /\ limit = MaxRuns

NextRewrite ==
    \/ RewriteMinimal
    \/ RewriteModern
    \/ RewriteClassic
    \/ RewriteClassicV2
    \/ RewriteCreative

SpecRewrite == InitRewrite /\ [][NextRewrite]_vars

(***************************************************************************)
(* rewrite-luxury-templates.py                                             *)
(***************************************************************************)
LAYOUT_MAP_MARKER == <<"DISP">>

\* "\n});"
BlockEnd == <<"END">>

LuxuryIds == {"luxury-divider", "social-band", "organic-pattern",
              "celtic-stripe", "premium-crest", "gold-construct"}

\* registerBackLayout("<id>"
RegOf(id) ==
    CASE id = "luxury-divider" -> "reg:luxury-divider"
      [] id = "social-band" -> "reg:social-band"
      [] id = "organic-pattern" -> "reg:organic-pattern"
      [] id = "celtic-stripe" -> "reg:celtic-stripe"
      [] id = "premium-crest" -> "reg:premium-crest"
      [] id = "gold-construct" -> "reg:gold-construct"

\* Mutant of the back layouts: the block of gold-construct is missing.
NEW_BACK_LAYOUTS_NoGoldConstruct ==
    <<"reg:luxury-divider", "END", "reg:social-band", "END",
      "reg:organic-pattern", "END", "reg:celtic-stripe", "END",
      "reg:premium-crest", "END">>

NEW_BACK_LAYOUTS ==
    <<"reg:luxury-divider", "END", "reg:social-band", "END",
      "reg:organic-pattern", "END", "reg:celtic-stripe", "END",
      "reg:premium-crest", "END", "reg:gold-construct", "END">>

NEW_FRONT_LAYOUTS == <<"LUX", "fn:luxury">>

\* text.rfind("registerBackLayout(", 0, b)
RFindRegister(text, b) == PyRFind(text, <<"registerBackLayout(">>, 0, b)

\* final.count(pattern)
Count(text, tok) == Cardinality({ i \in 1 .. Len(text) : text[i] = tok })

\* new_text[:new_register_end] + NEW_BACK_LAYOUTS + new_text[new_register_end:]
InsertBacks(new_text, new_register_end) ==
    SliceTo(new_text, new_register_end) \o NEW_BACK_LAYOUTS
        \o SliceFrom(new_text, new_register_end)

LuxuryError(text) ==
    [script |-> "luxury", status |-> "error", start |-> -1, end |-> -1, ins |-> -1,
     before |-> text, after |-> text, flagged |-> {}]

\* One run of rewrite-luxury-templates.py on text.  Every "ERROR:" branch
\* ends the script before FILE.write_text; the verification at the end only
\* prints a mark per template id and the script ends with "Done!".
LuxuryRun(text) ==
    LET start == Find(text, LUXURY_MARKER)
        end   == Find(text, LAYOUT_MAP_MARKER)
        last_register == RFindRegister(text, start)
        register_block_end == FindFrom(text, BlockEnd, last_register)
        new_text == Splice(text, start, NEW_FRONT_LAYOUTS, end)
        new_register_end ==
            FindFrom(new_text, BlockEnd,
                     RFindRegister(new_text, Find(new_text, LUXURY_MARKER)))
        final == InsertBacks(new_text, new_register_end + Len(BlockEnd))
    IN  IF start < 0 \/ end < 0 THEN LuxuryError(text)
        ELSE IF last_register < 0 THEN LuxuryError(text)
        ELSE IF register_block_end < 0 THEN LuxuryError(text)
        ELSE IF new_register_end < 0 THEN LuxuryError(text)
        ELSE [script |-> "luxury", status |-> "ok", start |-> start, end |-> end,
              ins |-> new_register_end + Len(BlockEnd),
              before |-> text, after |-> final,
              flagged |-> { id \in LuxuryIds : Count(final, RegOf(id)) # 1 }]

RewriteLuxury ==
    /\ Len(hist) < limit
    /\ hist' = Append(hist, LuxuryRun(file))
    /\ file' = LuxuryRun(file).after
    /\ UNCHANGED limit

LuxuryTokens == {"CRE", "LUX", "DISP", "reg:creative", "END"}

InitLuxury ==
    /\ file \in SeqsUpTo(LuxuryTokens, MaxLenLuxury)
    /\ hist = <<>>
    /\ limit = MaxRuns

NextLuxury ==
    \/ RewriteLuxury
    \/ RewriteCreative

SpecLuxury == InitLuxury /\ [][NextLuxury]_vars

(***************************************************************************)
(* The single-function rewriters: fix-clean-accent.py,                     *)
(* fix-corporate-chevron.py, fix-cyan-tech-back.py, fix-wave-gradient.py,  *)
(* fix-zigzag-overlay.py (one shape) and fix-cyan-tech.py.                 *)
(***************************************************************************)
FixScripts == {"clean-accent", "corporate-chevron", "cyan-tech-back",
               "wave-gradient", "zigzag-overlay"}

\* start_marker
FixStart(s) ==
    CASE s = "clean-accent" -> <<"sig:clean-accent">>
      [] s = "corporate-chevron" -> <<"sig:corporate-chevron">>
      [] s = "cyan-tech-back" -> <<"reg:cyan-tech">>
      [] s = "wave-gradient" -> <<"sig:wave-gradient">>
      [] s = "zigzag-overlay" -> <<"sig:zigzag-overlay">>
      [] s = "cyan-tech" -> <<"sig:cyan-tech">>

\* end_marker
FixEnd(s) ==
    CASE s = "clean-accent" -> <<"reg:clean-accent">>
      [] s = "corporate-chevron" -> <<"reg:corporate-chevron">>
      [] s = "cyan-tech-back" -> <<"function layoutCorporateChevron">>
      [] s = "wave-gradient" -> <<"reg:wave-gradient">>
      [] s = "zigzag-overlay" -> <<"reg:zigzag-overlay">>
      [] s = "cyan-tech" -> <<"// Register cyan-tech back layout">>

\* the comment the script backs up to: '\n// Back layout', '\n// Register',
\* '\n// ----'
FixComment(s) ==
    CASE s = "clean-accent" -> <<"NL", "// Back layout">>
      [] s = "corporate-chevron" -> <<"NL", "// Register">>
      [] s = "cyan-tech-back" -> <<"NL", "// ----">>
      [] s = "wave-gradient" -> <<"NL", "// Register">>
      [] s = "zigzag-overlay" -> <<"NL", "// Register">>

\* new_function / new_back: the start marker, a body with blank lines in it,
\* and the blank line(s) that end the text.
NewFunction(s) ==
    CASE s = "clean-accent" ->
             <<"sig:clean-accent", "body:clean-accent", "NL", "NL",
               "body:clean-accent", "NL", "NL">>
      [] s = "corporate-chevron" ->
             <<"sig:corporate-chevron", "body:corporate-chevron", "NL", "NL",
               "body:corporate-chevron", "NL", "NL">>
      [] s = "cyan-tech-back" ->
             <<"reg:cyan-tech", "body:cyan-tech-back", "NL", "NL",
               "body:cyan-tech-back", "NL", "NL", "NL">>
      [] s = "wave-gradient" ->
             <<"sig:wave-gradient", "body:wave-gradient", "NL", "NL",
               "body:wave-gradient", "NL", "NL">>
      [] s = "zigzag-overlay" ->
             <<"sig:zigzag-overlay", "body:zigzag-overlay", "NL", "NL",
               "body:zigzag-overlay", "NL", "NL">>
      [] s = "cyan-tech" ->
             <<"sig:cyan-tech", "body:cyan-tech", "NL", "NL",
               "body:cyan-tech", "NL", "NL">>

FixError(s, content) ==
    [script |-> s, status |-> "error", start |-> -1, endm |-> -1, end |-> -1,
     before |-> content, after |-> content]

\* search_back: the comment before the end marker, else the last blank line
SearchBack(s, content, start_idx, end_idx) ==
    IF PyRFind(content, FixComment(s), start_idx, end_idx) = -1
    THEN PyRFind(content, <<"NL", "NL">>, start_idx, end_idx) + 1
    ELSE PyRFind(content, FixComment(s), start_idx, end_idx)

\* One run of a script of FixScripts: only a missing start marker ends the
\* script before the file is written.
FixRun(s, content) ==
    LET start_idx == Find(content, FixStart(s))
        endm      == FindFrom(content, FixEnd(s), start_idx)
        end_idx   == SearchBack(s, content, start_idx, endm) + 1
    IN  IF start_idx = -1 THEN FixError(s, content)
        ELSE [script |-> s, status |-> "ok", start |-> start_idx, endm |-> endm,
              end |-> end_idx, before |-> content,
              after |-> Splice(content, start_idx, NewFunction(s), end_idx)]

\* fix-cyan-tech.py: the end is the comment line above the back layout, or,
\* when there is no such comment, two newlines back from the registration.
CyanTechEnd(content, start_idx) ==
    IF FindFrom(content, FixEnd("cyan-tech"), start_idx) = -1
    THEN PyRFind(content, <<"NL">>, 0,
                 PyRFind(content, <<"NL">>, 0,
                         FindFrom(content, <<"reg:cyan-tech">>, start_idx))) + 1
    ELSE FindFrom(content, FixEnd("cyan-tech"), start_idx)

CyanTechRun(content) ==
    LET start_idx == Find(content, FixStart("cyan-tech"))
        endm == IF FindFrom(content, FixEnd("cyan-tech"), start_idx) = -1
                THEN FindFrom(content, <<"reg:cyan-tech">>, start_idx)
                ELSE FindFrom(content, FixEnd("cyan-tech"), start_idx)
        end_idx == CyanTechEnd(content, start_idx)
    IN  IF start_idx = -1 THEN FixError("cyan-tech", content)
        ELSE [script |-> "cyan-tech", status |-> "ok", start |-> start_idx,
              endm |-> endm, end |-> end_idx, before |-> content,
              after |-> Splice(content, start_idx, NewFunction("cyan-tech"), end_idx)]

Fix(s) ==
    /\ Len(hist) < limit
    /\ hist' = Append(hist, FixRun(s, file))
    /\ file' = FixRun(s, file).after
    /\ UNCHANGED limit

FixCleanAccent      == Fix("clean-accent")
FixCorporateChevron == Fix("corporate-chevron")
FixCyanTechBack     == Fix("cyan-tech-back")
FixWaveGradient     == Fix("wave-gradient")
FixZigzagOverlay    == Fix("zigzag-overlay")

FixCyanTech ==
    /\ Len(hist) < limit
    /\ hist' = Append(hist, CyanTechRun(file))
    /\ file' = CyanTechRun(file).after
    /\ UNCHANGED limit

\* the texts a fix script looks for, as tokens of a file
FixTokens(s) ==
    CASE s = "cyan-tech" ->
             {"sig:cyan-tech", "// Register cyan-tech back layout", "reg:cyan-tech", "NL"}
      [] s = "cyan-tech-back" ->
             {"reg:cyan-tech", "sig:corporate-chevron", "// ----", "NL"}
      [] OTHER -> {FixStart(s)[1], FixEnd(s)[1], FixComment(s)[2], "NL"}

InitFix ==
    /\ \E s \in FixScripts \cup {"cyan-tech"} : file \in SeqsUpTo(FixTokens(s), MaxLenFix)
    /\ hist = <<>>
    /\ limit = MaxRunsFix

NextFix ==
    \/ FixCleanAccent
    \/ FixCorporateChevron
    \/ FixCyanTech
    \/ FixCyanTechBack
    \/ FixWaveGradient
    \/ FixZigzagOverlay

SpecFix == InitFix /\ [][NextFix]_vars

(***************************************************************************)
(* Every script that looks for a start marker, run on the files of all     *)
(* three families.                                                         *)
(***************************************************************************)
InitMarkers ==
    /\ \/ file \in SeqsUpTo(SectionTokens, MaxLenAll)
       \/ file \in SeqsUpTo(LuxuryTokens, MaxLenAll)
       \/ \E s \in FixScripts \cup {"cyan-tech"} : file \in SeqsUpTo(FixTokens(s), MaxLenAll)
    /\ hist = <<>>
    /\ limit = MaxRunsAll

NextMarkers ==
    \/ RewriteMinimal
    \/ RewriteModern
    \/ RewriteClassic
    \/ RewriteClassicV2
    \/ RewriteCreative
    \/ RewriteLuxury
    \/ FixCleanAccent
    \/ FixCorporateChevron
    \/ FixCyanTech
    \/ FixCyanTechBack
    \/ FixWaveGradient
    \/ FixZigzagOverlay

SpecMarkers == InitMarkers /\ [][NextMarkers]_vars

(***************************************************************************)
(* swap-front-back.py: find_matching_brace.  Here the text is a sequence   *)
(* of characters.                                                          *)
(***************************************************************************)
\* content[pos]
At(content, pos) == content[pos + 1]

\* the backtick character
Backtick == "BQ"

\* The loop of a quoted string (quote is ', " or, inside a template
\* expression, a backtick): the position where the loop ends.
RECURSIVE SkipQuoted(_, _, _)
SkipQuoted(content, pos, quote) ==
    IF pos < Len(content) /\ At(content, pos) # quote
    THEN IF At(content, pos) = "\\"
         THEN SkipQuoted(content, pos + 2, quote)
         ELSE SkipQuoted(content, pos + 1, quote)
    ELSE pos

\* The loop over a ${...} expression of a template literal: braces are
\* counted in td, a nested template literal is skipped, nothing else is
\* looked at.
RECURSIVE SkipTemplateExpr(_, _, _)
SkipTemplateExpr(content, pos, td) ==
    IF td > 0 /\ pos < Len(content)
    THEN IF At(content, pos) = "{" THEN SkipTemplateExpr(content, pos + 1, td + 1)
         ELSE IF At(content, pos) = "}" THEN SkipTemplateExpr(content, pos + 1, td - 1)
         ELSE IF At(content, pos) = Backtick
              THEN SkipTemplateExpr(content, SkipQuoted(content, pos + 1, Backtick) + 1, td)
         ELSE SkipTemplateExpr(content, pos + 1, td)
    ELSE pos

\* The loop over the text of a template literal.
RECURSIVE SkipTemplate(_, _)
SkipTemplate(content, pos) ==
    IF pos < Len(content) /\ At(content, pos) # Backtick
    THEN IF At(content, pos) = "\\" THEN SkipTemplate(content, pos + 2)
         ELSE IF At(content, pos) = "$" /\ pos + 1 < Len(content)
                 /\ At(content, pos + 1) = "{"
              THEN SkipTemplate(content, SkipTemplateExpr(content, pos + 2, 1))
         ELSE SkipTemplate(content, pos + 1)
    ELSE pos

\* while pos < length and content[pos] != '\n'
RECURSIVE SkipLineComment(_, _)
SkipLineComment(content, pos) ==
    IF pos < Len(content) /\ At(content, pos) # "\n"
    THEN SkipLineComment(content, pos + 1)
    ELSE pos

\* while pos + 1 < length and not (content[pos] == '*' and content[pos + 1] == '/')
RECURSIVE SkipBlockComment(_, _)
SkipBlockComment(content, pos) ==
    IF pos + 1 < Len(content)
       /\ ~(At(content, pos) = "*" /\ At(content, pos + 1) = "/")
    THEN SkipBlockComment(content, pos + 1)
    ELSE pos

\* while depth > 0 and pos < length: ...; return pos - 1
RECURSIVE BraceLoop(_, _, _)
BraceLoop(content, pos, depth) ==
    IF depth > 0 /\ pos < Len(content)
    THEN LET ch == At(content, pos)
         IN  IF ch = "{" THEN BraceLoop(content, pos + 1, depth + 1)
             ELSE IF ch = "}" THEN BraceLoop(content, pos + 1, depth - 1)
             ELSE IF ch \in {"\"", "'"}
                  THEN BraceLoop(content, SkipQuoted(content, pos + 1, ch) + 1, depth)
             ELSE IF ch = Backtick
                  THEN BraceLoop(content, SkipTemplate(content, pos + 1) + 1, depth)
             ELSE IF ch = "/" /\ pos + 1 < Len(content)
                  THEN IF At(content, pos + 1) = "/"
                       THEN BraceLoop(content, SkipLineComment(content, pos) + 1, depth)
                       ELSE IF At(content, pos + 1) = "*"
                       THEN BraceLoop(content, SkipBlockComment(content, pos + 2) + 2, depth)
                       ELSE BraceLoop(content, pos + 1, depth)
             ELSE BraceLoop(content, pos + 1, depth)
    ELSE pos - 1

find_matching_brace(content, open_pos) == BraceLoop(content, open_pos + 1, 1)

\* One call find_matching_brace(content, open_pos), as find_front_function
\* makes it: open_pos is the first '{' of the text.
BraceRun(content) ==
    [script |-> "find_matching_brace", status |-> "ok",
     open_pos |-> Find(content, <<"{">>),
     result |-> find_matching_brace(content, Find(content, <<"{">>)),
     before |-> content, after |-> content]

FindMatchingBrace ==
    /\ Len(hist) < limit
    /\ hist' = Append(hist, BraceRun(file))
    /\ UNCHANGED <<file, limit>>

\* Pieces of TypeScript text the inputs are built from: braces, a backtick,
\* the opening of a template expression, strings and comments that hold a
\* brace.
Fragments ==
    { <<"{">>, <<"}">>, <<Backtick>>, <<"$", "{">>,
      <<"'", "{", "'">>, <<"\"", "}", "\"">>,
      <<"/", "/", "}", "\n">>, <<"/", "*", "{", "*", "/">> }

\* the concatenations of at most n fragments
RECURSIVE FragmentTexts(_)
FragmentTexts(n) ==
    IF n = 0 THEN {<<>>}
    ELSE FragmentTexts(n - 1)
             \cup { s \o f : s \in FragmentTexts(n - 1), f \in Fragments }

InitBrace ==
    /\ \E body \in FragmentTexts(MaxFrags) : file = <<"{">> \o body
    /\ hist = <<>>
    /\ limit = 1

NextBrace == FindMatchingBrace

SpecBrace == InitBrace /\ [][NextBrace]_vars

(***************************************************************************)
(* add-logo-to-templates.py.  Here the file is the list `lines`; a line is *)
(* a tuple <<kind>> or <<kind, name>>:                                     *)
(*   <<"fn", f>>          function f(W: number, ...): LayerV2[] {          *)
(*   <<"return">>         return layers;                                   *)
(*   <<"open">>           a statement that opens a block:  if (...) {      *)
(*   <<"close">>          }                                                *)
(*   <<"blank">>, <<"comment">>, <<"stmt">>                                *)
(*   <<"logo">>           layers.push(...buildWatermarkLogo(               *)
(*   <<"logoarg1">>       cfg.logoUrl, cfg.company || "Co",                *)
(*   <<"logoarg">>        Math.round(...), ...                             *)
(*   <<"logoend">>        ));                                              *)
(*   <<"push">>           layers.push(styledText({                         *)
(*   <<"company", m>>     a property line that holds the marker text m     *)
(*   <<"pushend">>        }));                                             *)
(*   <<"guard">>          if (!cfg.logoUrl) {                              *)
(***************************************************************************)
\* lines[i].count("{") - lines[i].count("}")
BraceDelta(line) ==
    CASE line[1] \in {"fn", "open", "push", "guard"} -> 1
      [] line[1] \in {"close", "pushend"} -> -1
      [] OTHER -> 0

\* lines[j].count("(") - lines[j].count(")")
ParenDelta(line) ==
    CASE line[1] \in {"logo", "push"} -> 2
      [] line[1] \in {"logoend", "pushend"} -> -2
      [] OTHER -> 0

\* f"function {func_name}(" in line
HasFunction(line, func_name) == line = <<"fn", func_name>>

\* company_name_text in lines[i]
HasCompanyText(line, company_name_text) == line = <<"company", company_name_text>>

\* lines[i].strip() == "return layers;"
IsReturn(line) == line = <<"return">>

\* lists.insert(idx, x)
PyInsert(lines, idx, x) ==
    SubSeq(lines, 1, PyNorm(idx, Len(lines))) \o <<x>>
        \o SubSeq(lines, PyNorm(idx, Len(lines)) + 1, Len(lines))

\* lines[i], also for a negative i
PyAt(lines, i) == IF i < 0 THEN lines[Len(lines) + i + 1] ELSE lines[i + 1]

\* the first line that holds "function <func_name>(", or -1 (None)
FunctionStart(lines, func_name) ==
    IF \E i \in 0 .. (Len(lines) - 1) : HasFunction(lines[i + 1], func_name)
    THEN SetMin({ i \in 0 .. (Len(lines) - 1) : HasFunction(lines[i + 1], func_name) })
    ELSE -1

\* the loop over range(start, len(lines)): the first 'return layers;' line
\* reached with brace_depth <= 1, or -1 (None)
RECURSIVE ReturnLine(_, _, _)
ReturnLine(lines, i, brace_depth) ==
    IF i >= Len(lines) THEN -1
    ELSE IF IsReturn(lines[i + 1]) /\ brace_depth + BraceDelta(lines[i + 1]) <= 1 THEN i
    ELSE ReturnLine(lines, i + 1, brace_depth + BraceDelta(lines[i + 1]))

find_function_range(lines, func_name) ==
    IF FunctionStart(lines, func_name) = -1 THEN [start |-> -1, ret |-> -1]
    ELSE [start |-> FunctionStart(lines, func_name),
          ret |-> ReturnLine(lines, FunctionStart(lines, func_name), 0)]

\* the code list of the two template loops
LogoCode ==
    << <<"blank">>, <<"comment">>, <<"logo">>, <<"logoarg1">>, <<"logoarg">>,
       <<"logoarg">>, <<"logoend">> >>

RECURSIVE InsertLines(_, _, _)
InsertLines(lines, at, code_lines) ==
    IF code_lines = <<>> THEN lines
    ELSE InsertLines(PyInsert(lines, at, Head(code_lines)), at + 1, Tail(code_lines))

insert_before_return(lines, func_name, code_lines) ==
    LET r == find_function_range(lines, func_name)
    IN  IF r.ret = -1 THEN [lines |-> lines, done |-> FALSE]
        ELSE [lines |-> InsertLines(lines, r.ret, code_lines), done |-> TRUE]

\* "layers.push(" in lines[push_start]
HasPush(line) == line[1] \in {"push", "logo"}

\* range(start, ret_line + 10)
CompanySearchSpan == 10

\* range(i, min(i + 30, len(lines)))
PushEndSpan == 30

\* while push_start > start and "layers.push(" not in lines[push_start]
RECURSIVE PushStart(_, _, _)
PushStart(lines, start, push_start) ==
    IF push_start > start /\ ~HasPush(lines[push_start + 1])
    THEN PushStart(lines, start, push_start - 1)
    ELSE push_start

\* while comment_line > start and lines[comment_line].strip() == ""
RECURSIVE CommentLine(_, _, _)
CommentLine(lines, start, comment_line) ==
    IF comment_line > start /\ lines[comment_line + 1] = <<"blank">>
    THEN CommentLine(lines, start, comment_line - 1)
    ELSE comment_line

\* the loop that looks for the closing "}));" of the push block
RECURSIVE PushEnd(_, _, _, _)
PushEnd(lines, i, j, paren_depth) ==
    IF j >= Min2(i + PushEndSpan, Len(lines)) THEN i
    ELSE IF \/ lines[j + 1] = <<"pushend">>
            \/ /\ paren_depth + ParenDelta(lines[j + 1]) <= 0
               /\ lines[j + 1][1] \in {"logoend", "pushend"}
    THEN j
    ELSE PushEnd(lines, i, j + 1, paren_depth + ParenDelta(lines[j + 1]))

\* The body of the loop of wrap_company_with_guard for the line i that holds
\* the company text.
GuardAt(lines, start, i) ==
    LET ps0 == PushStart(lines, start, i)
        cl == CommentLine(lines, start, ps0 - 1)
        push_start == IF PyAt(lines, cl) = <<"comment">> THEN cl ELSE ps0
        push_end == PushEnd(lines, i, i, 0)
    IN  IF ps0 > 0 /\ lines[ps0] = <<"guard">>
        THEN [lines |-> lines, result |-> "already"]
        ELSE [lines |-> PyInsert(PyInsert(lines, push_start, <<"guard">>),
                                 push_end + 2, <<"close">>),
              result |-> "guarded"]

\* result "crash" is the IndexError of lines[i] when range(start, ret_line + 10)
\* runs past the last line before the company text is met
wrap_company_with_guard(lines, func_name, company_name_text) ==
    LET r == find_function_range(lines, func_name)
        found == { i \in r.start .. (r.ret + CompanySearchSpan - 1) :
                     i < Len(lines) /\ HasCompanyText(lines[i + 1], company_name_text) }
    IN  IF r.start = -1 \/ r.ret = -1 THEN [lines |-> lines, result |-> "norange"]
        ELSE IF found # {} THEN GuardAt(lines, r.start, SetMin(found))
        ELSE IF r.ret + CompanySearchSpan > Len(lines)
        THEN [lines |-> lines, result |-> "crash"]
        ELSE [lines |-> lines, result |-> "notfound"]

templates_no_company ==
    << "layoutMonogramLuxe", "layoutGeometricMark", "layoutFrameMinimal",
       "layoutSplitVertical", "layoutDiagonalMono", "layoutHexSplit",
       "layoutFlowingLines", "layoutNeonWatermark", "layoutBlueprintTech",
       "layoutDiagonalGold", "layoutLuxuryDivider", "layoutGoldConstruct" >>

templates_with_company ==
    << <<"layoutCorporateChevron", "Company Branding">>,
       <<"layoutZigzagOverlay", "name: \"Company\"">>,
       <<"layoutDotCircle", "Logo Text">> >>

\* loop 1: the templates without company text
RECURSIVE LoopNoCompany(_, _)
LoopNoCompany(lines, todo) ==
    IF todo = <<>> THEN lines
    ELSE LoopNoCompany(insert_before_return(lines, Head(todo), LogoCode).lines, Tail(todo))

\* loop 2: the templates with company text; a crash ends the script
RECURSIVE LoopWithCompany(_, _)
LoopWithCompany(lines, todo) ==
    IF todo = <<>> THEN [lines |-> lines, status |-> "ok"]
    ELSE LET ins == insert_before_return(lines, Head(todo)[1], LogoCode).lines
             w == wrap_company_with_guard(ins, Head(todo)[1], Head(todo)[2])
         IN  IF w.result = "crash" THEN [lines |-> lines, status |-> "error"]
             ELSE LoopWithCompany(w.lines, Tail(todo))

\* what one pass of loop 1 does for each template, in order: the lines before
\* and after it, the line that insert_before_return inserts at (-1: none), the
\* lines that wrap_company_with_guard starts from, whether find_function_range
\* warned and whether the pass counted a change
RECURSIVE StepsNoCompany(_, _)
StepsNoCompany(lines, todo) ==
    IF todo = <<>> THEN <<>>
    ELSE LET r == insert_before_return(lines, Head(todo), LogoCode)
         IN  << [func |-> Head(todo), before |-> lines, after |-> r.lines,
                 at |-> find_function_range(lines, Head(todo)).ret,
                 wrapin |-> r.lines, marker |-> "",
                 warned |-> find_function_range(lines, Head(todo)).ret = -1,
                 counted |-> r.done, guard |-> "none"] >>
                \o StepsNoCompany(r.lines, Tail(todo))

\* the same for loop 2; a crash ends the list
RECURSIVE StepsWithCompany(_, _)
StepsWithCompany(lines, todo) ==
    IF todo = <<>> THEN <<>>
    ELSE LET r == insert_before_return(lines, Head(todo)[1], LogoCode)
             w == wrap_company_with_guard(r.lines, Head(todo)[1], Head(todo)[2])
             step == [func |-> Head(todo)[1], before |-> lines, after |-> w.lines,
                      at |-> find_function_range(lines, Head(todo)[1]).ret,
                      wrapin |-> r.lines, marker |-> Head(todo)[2],
                      warned |-> find_function_range(lines, Head(todo)[1]).ret = -1,
                      counted |-> r.done, guard |-> w.result]
         IN  IF w.result = "crash" THEN <<step>>
             ELSE <<step>> \o StepsWithCompany(w.lines, Tail(todo))

\* The whole script: the file is written only when both loops have ended.
\* changes is the number that the last line of output reports.
AddLogoRun(lines) ==
    LET r == LoopWithCompany(LoopNoCompany(lines, templates_no_company),
                             templates_with_company)
        steps == StepsNoCompany(lines, templates_no_company)
                   \o StepsWithCompany(LoopNoCompany(lines, templates_no_company),
                                       templates_with_company)
    IN  [script |-> "add-logo-to-templates", status |-> r.status,
         before |-> lines,
         steps |-> steps,
         changes |-> Cardinality({ k \in 1 .. Len(steps) : steps[k].counted }),
         after |-> IF r.status = "ok" THEN r.lines ELSE lines]

AddLogoToTemplates ==
    /\ Len(hist) < limit
    /\ hist' = Append(hist, AddLogoRun(file))
    /\ file' = AddLogoRun(file).after
    /\ UNCHANGED limit

LogoLines ==
    { <<"fn", "layoutMonogramLuxe">>, <<"fn", "layoutGeometricMark">>,
      <<"logo">>, <<"return">>, <<"open">>, <<"close">> }

InitLogo ==
    /\ file \in SeqsUpTo(LogoLines, MaxLines)
    /\ hist = <<>>
    /\ limit = 1

NextLogo == AddLogoToTemplates

SpecLogo == InitLogo /\ [][NextLogo]_vars

(***************************************************************************)
(* fix-logo-company.py.  The script indents lines, so here a line is a     *)
(* record [indent, text]: indent counts the leading two-space units and    *)
(* text is a tuple of the kinds listed above.                              *)
(***************************************************************************)
\* max(0, logo_idx - 25) and min(len(lines), logo_idx + 25)
LogoWindow == 25

\* range(j, max(j - 5, 0), -1)
PushBackSpan == 5

\* range(push_start, min(push_start + 15, len(lines)))
PushBlockSpan == 15

\* 'buildWatermarkLogo' in line, no 'import' in it, no '//' before the name
IsLogoCall(line) == line.text = <<"logo">>

\* 'name: "Company"' in lines[j]
IsCompanyName(line) == line.text = <<"company", "name: \"Company\"">>

\* 'cfg.logoUrl' in prev_line
HasLogoUrl(line) == line.text[1] \in {"guard", "logoarg1"}

\* the indices i, in order, that the first loop appends to logo_lines
RECURSIVE LogoLinesFrom(_, _)
LogoLinesFrom(lines, i) ==
    IF i >= Len(lines) THEN <<>>
    ELSE IF IsLogoCall(lines[i + 1]) THEN <<i>> \o LogoLinesFrom(lines, i + 1)
    ELSE LogoLinesFrom(lines, i + 1)

logo_lines(lines) == LogoLinesFrom(lines, 0)

\* the trace back from line j to the 'layers.push(styledText({' line, or -1
PushStartOf(lines, j) ==
    LET ks == { k \in (Max2(j - PushBackSpan, 0) + 1) .. j : lines[k + 1].text = <<"push">> }
    IN  IF ks = {} THEN -1 ELSE SetMax(ks)

\* the search for the closing '}));' with brace_count <= 0, or -1
RECURSIVE PushEndOf(_, _, _, _)
PushEndOf(lines, push_start, k, brace_count) ==
    IF k >= Min2(push_start + PushBlockSpan, Len(lines)) THEN -1
    ELSE IF /\ lines[k + 1].text = <<"pushend">>
            /\ brace_count + BraceDelta(lines[k + 1].text) <= 0
    THEN k
    ELSE PushEndOf(lines, push_start, k + 1, brace_count + BraceDelta(lines[k + 1].text))

\* Company line j yields a change unless one of the three `continue`s is taken
Wrappable(lines, j) ==
    /\ IsCompanyName(lines[j + 1])
    /\ PushStartOf(lines, j) # -1
    /\ PushEndOf(lines, PushStartOf(lines, j), PushStartOf(lines, j), 0) # -1
    /\ ~(PushStartOf(lines, j) > 0 /\ HasLogoUrl(lines[PushStartOf(lines, j)]))

\* the detection loop: one (push_start, push_end) per logo call that has a
\* wrappable Company line in its window
RECURSIVE ChangesFrom(_, _)
ChangesFrom(lines, todo) ==
    IF todo = <<>> THEN <<>>
    ELSE LET js == { j \in Max2(0, Head(todo) - LogoWindow)
                             .. (Min2(Len(lines), Head(todo) + LogoWindow) - 1) :
                       Wrappable(lines, j) }
         IN  IF js = {} THEN ChangesFrom(lines, Tail(todo))
             ELSE << <<PushStartOf(lines, SetMin(js)),
                       PushEndOf(lines, PushStartOf(lines, SetMin(js)),
                                 PushStartOf(lines, SetMin(js)), 0)>> >>
                      \o ChangesFrom(lines, Tail(todo))

\* changes.sort(key=lambda x: x[0], reverse=True)
RECURSIVE SortReverse(_)
SortReverse(changes) ==
    IF changes = <<>> THEN <<>>
    ELSE LET top == SetMax({ changes[n][1] : n \in 1 .. Len(changes) })
             at == SetMin({ n \in 1 .. Len(changes) : changes[n][1] = top })
         IN  <<changes[at]>>
                \o SortReverse(SubSeq(changes, 1, at - 1) \o SubSeq(changes, at + 1, Len(changes)))

\* the body of the apply loop for one change
ApplyChange(lines, push_start, push_end) ==
    LET indent == lines[push_start + 1].indent
        shifted == [ n \in 1 .. Len(lines) |->
                       IF n - 1 \in push_start .. push_end
                       THEN [lines[n] EXCEPT !.indent = @ + 1] ELSE lines[n] ]
    IN  PyInsert(PyInsert(shifted, push_start, [indent |-> indent, text |-> <<"guard">>]),
                 push_end + 2, [indent |-> indent, text |-> <<"close">>])

RECURSIVE ApplyChanges(_, _)
ApplyChanges(lines, changes) ==
    IF changes = <<>> THEN lines
    ELSE ApplyChanges(ApplyChange(lines, Head(changes)[1], Head(changes)[2]), Tail(changes))

FixLogoCompanyRun(lines) ==
    [script |-> "fix-logo-company", status |-> "ok", before |-> lines,
     changes |-> SortReverse(ChangesFrom(lines, logo_lines(lines))),
     after |-> ApplyChanges(lines, SortReverse(ChangesFrom(lines, logo_lines(lines))))]

FixLogoCompany ==
    /\ Len(hist) < limit
    /\ hist' = Append(hist, FixLogoCompanyRun(file))
    /\ file' = FixLogoCompanyRun(file).after
    /\ UNCHANGED limit

CompanyLines ==
    { [indent |-> 1, text |-> x] :
        x \in { <<"logo">>, <<"push">>, <<"company", "name: \"Company\"">>,
                <<"pushend">>, <<"guard">>, <<"stmt">> } }

InitCompany ==
    /\ file \in SeqsUpTo(CompanyLines, MaxLinesCompany)
    /\ hist = <<>>
    /\ limit = 1

NextCompany == FixLogoCompany

SpecCompany == InitCompany /\ [][NextCompany]_vars

(***************************************************************************)
(* fix-contact-overflow.py.  A line is a record [indent, text, comma]:     *)
(* comma tells whether the line ends with ','.  The texts are              *)
(*   <<"call">>      layers.push(...contactWithIcons({                     *)
(*   <<"call1">>     a call written on one line, closed by '}))'           *)
(*   <<"prop">>      a property of the options object                      *)
(*   <<"maxY">>      maxY: H * 0.95                                        *)
(*   <<"pushend">>   }));                                                  *)
(*   <<"stmt">>      any other line                                        *)
(***************************************************************************)
call_lines ==
    <<3244, 3398, 3592, 3851, 4202, 4357, 4513, 4653, 4867, 4990, 5547, 5689,
      5775, 5843>>

\* range(idx, min(idx + 20, len(lines)))
CloseSearchSpan == 20

\* '}));' in line or '}))' in line
HasClose(line) == line.text \in {<<"pushend">>, <<"call1">>}

\* 'maxY' in a line of the block
HasMaxY(line) == line.text = <<"maxY">>

\* the first line k of range(idx, min(idx + 20, len(lines))) that holds the
\* closing, or -1
ClosingLineOf(lines, idx) ==
    LET ks == { k \in idx .. (Min2(idx + CloseSearchSpan, Len(lines)) - 1) :
                  HasClose(lines[k + 1]) }
    IN  IF ks = {} THEN -1 ELSE SetMin(ks)

\* lines[prev_line_idx] gets its comma and the maxY line goes in at k
InsertMaxY(lines, k) ==
    PyInsert([lines EXCEPT ![k].comma = TRUE], k,
             [indent |-> lines[k].indent, text |-> <<"maxY">>, comma |-> TRUE])

\* the body of the loop for the n-th entry of the list
ContactStep(lines, calls, n) ==
    LET ln == calls[n]
        k == ClosingLineOf(lines, ln - 1)
    IN  IF k = -1 \/ (\E m \in (ln - 1) .. k : HasMaxY(lines[m + 1]))
        THEN [lines |-> lines, calls |-> calls]
        ELSE [lines |-> InsertMaxY(lines, k),
              calls |-> [ j \in 1 .. Len(calls) |->
                            IF calls[j] > ln THEN calls[j] + 1 ELSE calls[j] ]]

RECURSIVE ContactLoop(_, _, _)
ContactLoop(lines, calls, n) ==
    IF n > Len(calls) THEN lines
    ELSE ContactLoop(ContactStep(lines, calls, n).lines, ContactStep(lines, calls, n).calls, n + 1)

FixContactOverflowRun(lines) ==
    [script |-> "fix-contact-overflow", status |-> "ok", before |-> lines,
     after |-> ContactLoop(lines, call_lines, 1)]

FixContactOverflow ==
    /\ Len(hist) < limit
    /\ hist' = Append(hist, FixContactOverflowRun(file))
    /\ file' = FixContactOverflowRun(file).after
    /\ UNCHANGED limit

ContactLine(text, indent, comma) == [indent |-> indent, text |-> text, comma |-> comma]

ContactLines ==
    { ContactLine(<<"call">>, 1, FALSE), ContactLine(<<"call1">>, 1, FALSE),
      ContactLine(<<"prop">>, 2, TRUE), ContactLine(<<"prop">>, 2, FALSE),
      ContactLine(<<"maxY">>, 2, TRUE), ContactLine(<<"pushend">>, 1, FALSE) }

Filler(n) == [ i \in 1 .. n |-> ContactLine(<<"stmt">>, 1, FALSE) ]

\* the text that follows the first block: nothing, or filler up to the second
\* listed line and a call there
SecondBlocks(used) ==
    { <<>> } \cup
    { Filler(call_lines[2] - call_lines[1] - used) \o b :
        b \in { << ContactLine(<<"call">>, 1, FALSE), ContactLine(<<"prop">>, 2, FALSE),
                   ContactLine(<<"pushend">>, 1, FALSE) >>,
                << ContactLine(<<"call">>, 1, FALSE), ContactLine(<<"maxY">>, 2, TRUE),
                   ContactLine(<<"pushend">>, 1, FALSE) >> } }

\* the file holds its first block at the first listed line
InitContact ==
    /\ \E b1 \in SeqsUpTo(ContactLines, MaxBlock) : \E rest \in SecondBlocks(Len(b1)) :
           file = Filler(call_lines[1] - 1) \o b1 \o rest
    /\ hist = <<>>
    /\ limit = 1

NextContact == FixContactOverflow

SpecContact == InitContact /\ [][NextContact]_vars

(***************************************************************************)
(* swap-front-back.py, the theme colours.  card-template-helpers.ts is a   *)
(* sequence of entries  "<key>": { ... };  an entry is a record            *)
(* [key, fields] and a field a record [name, space, value], where space    *)
(* counts the blanks between the colon and the quoted value.               *)
(***************************************************************************)
SWAPPED ==
    << "ultra-minimal", "geometric-mark", "split-vertical", "cyan-tech",
       "corporate-chevron", "hex-split", "diamond-brand", "flowing-lines",
       "blueprint-tech", "skyline-silhouette", "premium-crest" >>

\* re.search(rf'"{tid}":\s*\{[^}]+\}', helpers_content): the index of the
\* first entry with that key, or 0
ThemeMatch(helpers_content, tid) ==
    IF \E n \in 1 .. Len(helpers_content) : helpers_content[n].key = tid
    THEN SetMin({ n \in 1 .. Len(helpers_content) : helpers_content[n].key = tid })
    ELSE 0

\* re.search(r'<name>:\s*"([^"]+)"', theme_text).group(1), or "" for no match
FieldMatch(theme_text, name) ==
    LET ns == { n \in 1 .. Len(theme_text.fields) :
                  theme_text.fields[n].name = name /\ theme_text.fields[n].value # "" }
    IN  IF ns = {} THEN "" ELSE theme_text.fields[SetMin(ns)].value

\* new_theme.replace(f'<name>: "{old}"', f'<name>: "{new}"'): the literal has
\* exactly one blank after the colon
ReplaceField(theme_text, name, old, new) ==
    [theme_text EXCEPT !.fields =
        [ n \in 1 .. Len(@) |->
            IF @[n].name = name /\ @[n].space = 1 /\ @[n].value = old
            THEN [@[n] EXCEPT !.value = new] ELSE @[n] ]]

\* new_theme.replace(marker, value)
ReplaceMarker(theme_text, marker, value) ==
    [theme_text EXCEPT !.fields =
        [ n \in 1 .. Len(@) |->
            IF @[n].value = marker THEN [@[n] EXCEPT !.value = value] ELSE @[n] ]]

\* the swap using markers
NewTheme(theme_text) ==
    LET frontBg == FieldMatch(theme_text, "frontBg")
        backBg == FieldMatch(theme_text, "backBg")
        frontText == FieldMatch(theme_text, "frontText")
        backText == FieldMatch(theme_text, "backText")
        m1 == ReplaceField(theme_text, "frontBg", frontBg, "___NEWFB___")
        m2 == ReplaceField(m1, "backBg", backBg, "___NEWBB___")
        m3 == ReplaceField(m2, "frontText", frontText, "___NEWFT___")
        m4 == ReplaceField(m3, "backText", backText, "___NEWBT___")
    IN  ReplaceMarker(ReplaceMarker(ReplaceMarker(ReplaceMarker(m4,
            "___NEWFB___", backBg), "___NEWBB___", frontBg),
            "___NEWFT___", backText), "___NEWBT___", frontText)

\* what the loop body prints for tid
ThemeOutcome(helpers_content, tid) ==
    IF ThemeMatch(helpers_content, tid) = 0 THEN "not found"
    ELSE IF \E name \in {"frontBg", "backBg", "frontText", "backText"} :
                FieldMatch(helpers_content[ThemeMatch(helpers_content, tid)], name) = ""
    THEN "missing fields"
    ELSE "swapped"

\* the loop body: helpers_content.replace(theme_text, new_theme)
SwapTheme(helpers_content, tid) ==
    IF ThemeOutcome(helpers_content, tid) # "swapped" THEN helpers_content
    ELSE LET theme_text == helpers_content[ThemeMatch(helpers_content, tid)]
         IN  [ n \in 1 .. Len(helpers_content) |->
                 IF helpers_content[n] = theme_text THEN NewTheme(theme_text)
                 ELSE helpers_content[n] ]

RECURSIVE ThemeLoop(_, _)
ThemeLoop(helpers_content, todo) ==
    IF todo = <<>> THEN helpers_content
    ELSE ThemeLoop(SwapTheme(helpers_content, Head(todo)), Tail(todo))

\* the outcome printed for each template id, in the order of the loop
RECURSIVE ThemeOutcomes(_, _)
ThemeOutcomes(helpers_content, todo) ==
    IF todo = <<>> THEN <<>>
    ELSE <<ThemeOutcome(helpers_content, Head(todo))>>
            \o ThemeOutcomes(SwapTheme(helpers_content, Head(todo)), Tail(todo))

swap_theme_colors(helpers_content) == ThemeLoop(helpers_content, SWAPPED)

ThemeRun(helpers_content) ==
    [script |-> "swap_theme_colors", status |-> "ok", before |-> helpers_content,
     outcomes |-> ThemeOutcomes(helpers_content, SWAPPED),
     after |-> swap_theme_colors(helpers_content)]

SwapThemeColors ==
    /\ Len(hist) < limit
    /\ hist' = Append(hist, ThemeRun(file))
    /\ file' = ThemeRun(file).after
    /\ UNCHANGED limit

ThemeField(name, space, value) == [name |-> name, space |-> space, value |-> value]

\* the ways one colour field is written in an entry: left out, or with one
\* or two blanks and one of two colours
FieldForms(name) ==
    { <<>> } \cup { <<ThemeField(name, s, v)>> : s \in 1 .. MaxSpace, v \in {"#111", "#222"} }

ThemeEntries(key) ==
    { [key |-> key,
       fields |-> fb \o bb \o ft \o bt \o <<ThemeField("accent", 1, "#111")>>] :
        fb \in FieldForms("frontBg"), bb \in FieldForms("backBg"),
        ft \in FieldForms("frontText"), bt \in FieldForms("backText") }

OtherEntries ==
    { [key |-> k,
       fields |-> << ThemeField("frontBg", 1, "#111"), ThemeField("backBg", 1, "#222"),
                     ThemeField("frontText", 1, "#222"), ThemeField("backText", 1, "#111"),
                     ThemeField("frontBgAlt", 1, "#222") >>] :
        k \in {"geometric-mark", "classic"} }

InitTheme ==
    /\ \E e \in ThemeEntries("ultra-minimal") : \E o \in OtherEntries :
           file \in { <<e>>, <<e, o>>, <<o, e>> }
    /\ hist = <<>>
    /\ limit = MaxRunsTheme

NextTheme == SwapThemeColors

SpecTheme == InitTheme /\ [][NextTheme]_vars

\* Files for the company guard: one function of templates_with_company whose
\* body holds a push block with a company line, written with or without a
\* comment above it and with or without a guard around it.
GuardShapes ==
    { [pre |-> <<>>, post |-> <<>>],
      [pre |-> << <<"comment">> >>, post |-> <<>>],
      [pre |-> << <<"comment">>, <<"blank">> >>, post |-> <<>>],
      [pre |-> << <<"stmt">> >>, post |-> <<>>],
      [pre |-> << <<"guard">> >>, post |-> << <<"close">> >>],
      [pre |-> << <<"guard">>, <<"comment">> >>, post |-> << <<"close">> >>],
      [pre |-> << <<"comment">>, <<"guard">> >>, post |-> << <<"close">> >>] }

GuardTails == { <<>>, [ n \in 1 .. CompanySearchSpan |-> <<"stmt">> ] }

InitGuard ==
    /\ \E a, b \in 1 .. Len(templates_with_company) :
         \E shape \in GuardShapes : \E tail \in GuardTails :
           file = << <<"fn", templates_with_company[a][1]>> >> \o shape.pre
                    \o << <<"push">>, <<"company", templates_with_company[b][2]>>,
                          <<"pushend">> >>
                    \o shape.post \o << <<"return">>, <<"close">> >> \o tail
    /\ hist = <<>>
    /\ limit = MaxRunsGuard

NextGuard == AddLogoToTemplates

SpecGuard == InitGuard /\ [][NextGuard]_vars

(***************************************************************************)
(* swap-front-back.py, the layout bodies.  business-card-adapter.ts is a   *)
(* sequence of tokens: the characters find_matching_brace tells apart,     *)
(* white space, and longer texts that the script searches for or replaces  *)
(* as a whole ('function layoutUltraMinimal(', 't.frontBg', ...).          *)
(***************************************************************************)
FUNC_NAMES ==
    [tid \in { SWAPPED[n] : n \in 1 .. Len(SWAPPED) } |->
        CASE tid = "ultra-minimal" -> "layoutUltraMinimal"
          [] tid = "geometric-mark" -> "layoutGeometricMark"
          [] tid = "split-vertical" -> "layoutSplitVertical"
          [] tid = "cyan-tech" -> "layoutCyanTech"
          [] tid = "corporate-chevron" -> "layoutCorporateChevron"
          [] tid = "hex-split" -> "layoutHexSplit"
          [] tid = "diamond-brand" -> "layoutDiamondBrand"
          [] tid = "flowing-lines" -> "layoutFlowingLines"
          [] tid = "blueprint-tech" -> "layoutBlueprintTech"
          [] tid = "skyline-silhouette" -> "layoutSkylineSilhouette"
          [] tid = "premium-crest" -> "layoutPremiumCrest"]

\* the token that rf'function {func_name}\(' matches
FunctionPattern(func_name) ==
    CASE func_name = "layoutUltraMinimal" -> "function layoutUltraMinimal("
      [] func_name = "layoutGeometricMark" -> "function layoutGeometricMark("
      [] func_name = "layoutSplitVertical" -> "function layoutSplitVertical("
      [] func_name = "layoutCyanTech" -> "function layoutCyanTech("
      [] func_name = "layoutCorporateChevron" -> "function layoutCorporateChevron("
      [] func_name = "layoutHexSplit" -> "function layoutHexSplit("
      [] func_name = "layoutDiamondBrand" -> "function layoutDiamondBrand("
      [] func_name = "layoutFlowingLines" -> "function layoutFlowingLines("
      [] func_name = "layoutBlueprintTech" -> "function layoutBlueprintTech("
      [] func_name = "layoutSkylineSilhouette" -> "function layoutSkylineSilhouette("
      [] func_name = "layoutPremiumCrest" -> "function layoutPremiumCrest("

\* the token that rf'registerBackLayout\("{template_id}"' matches
RegistrationPattern(template_id) ==
    CASE template_id = "ultra-minimal" -> "registerBackLayout(\"ultra-minimal\""
      [] template_id = "geometric-mark" -> "registerBackLayout(\"geometric-mark\""
      [] template_id = "split-vertical" -> "registerBackLayout(\"split-vertical\""
      [] template_id = "cyan-tech" -> "registerBackLayout(\"cyan-tech\""
      [] template_id = "corporate-chevron" -> "registerBackLayout(\"corporate-chevron\""
      [] template_id = "hex-split" -> "registerBackLayout(\"hex-split\""
      [] template_id = "diamond-brand" -> "registerBackLayout(\"diamond-brand\""
      [] template_id = "flowing-lines" -> "registerBackLayout(\"flowing-lines\""
      [] template_id = "blueprint-tech" -> "registerBackLayout(\"blueprint-tech\""
      [] template_id = "skyline-silhouette" -> "registerBackLayout(\"skyline-silhouette\""
      [] template_id = "premium-crest" -> "registerBackLayout(\"premium-crest\""

\* \s
IsSpace(tok) == tok \in {" ", "\n"}

\* re.search of a one-token pattern: the index of the first match, or -1
SearchToken(content, tok) ==
    IF \E i \in 0 .. (Len(content) - 1) : content[i + 1] = tok
    THEN SetMin({ i \in 0 .. (Len(content) - 1) : content[i + 1] = tok })
    ELSE -1

\* the position after the white space that starts at pos
RECURSIVE SkipSpace(_, _)
SkipSpace(content, pos) ==
    IF pos < Len(content) /\ IsSpace(At(content, pos))
    THEN SkipSpace(content, pos + 1)
    ELSE pos

find_front_function(content, func_name) ==
    LET match == SearchToken(content, FunctionPattern(func_name))
        brace_pos == PyFind(content, <<"{">>, match + 1, Len(content))
        brace_close == find_matching_brace(content, brace_pos)
    IN  IF match = -1 \/ brace_pos = -1 THEN [found |-> FALSE]
        ELSE [found |-> TRUE, start |-> match, end |-> brace_close + 1,
              body |-> Slice(content, brace_pos + 1, brace_close),
              brace_start |-> brace_pos, brace_end |-> brace_close]

\* re.search(r'=>\s*\{', content[from:]): the position of the '{' of the
\* first match, or -1
ArrowBrace(content, from) ==
    LET hits == { i \in from .. (Len(content) - 1) :
                    /\ content[i + 1] = "=>"
                    /\ SkipSpace(content, i + 1) < Len(content)
                    /\ At(content, SkipSpace(content, i + 1)) = "{" }
    IN  IF hits = {} THEN -1 ELSE SkipSpace(content, SetMin(hits) + 1)

\* re.match(r'\s*\)\s*;', content[reg_end:]): the end of the match, or
\* reg_end when there is none
CloseOfRegistration(content, reg_end) ==
    LET paren == SkipSpace(content, reg_end)
        semi == SkipSpace(content, paren + 1)
    IN  IF /\ paren < Len(content) /\ At(content, paren) = ")"
           /\ semi < Len(content) /\ At(content, semi) = ";"
        THEN semi + 1
        ELSE reg_end

find_back_registration(content, template_id) ==
    LET match == SearchToken(content, RegistrationPattern(template_id))
        brace_pos == ArrowBrace(content, match + 1)
        brace_close == find_matching_brace(content, brace_pos)
    IN  IF match = -1 \/ brace_pos = -1 THEN [found |-> FALSE]
        ELSE [found |-> TRUE, start |-> match,
              end |-> CloseOfRegistration(content, brace_close + 1),
              body |-> Slice(content, brace_pos + 1, brace_close),
              brace_start |-> brace_pos, brace_end |-> brace_close]

\* the replacements of transform_back_to_front that touch a token of the
\* model's bodies
BackToFrontToken(tok) ==
    CASE tok = "theme.backBg" -> "t.frontBg"
      [] tok = "theme.backText" -> "t.frontText"
      [] tok = "theme.frontText" -> "t.frontText"
      [] tok = "theme.frontBg" -> "t.frontBg"
      [] tok = "t.backBg" -> "t.frontBg"
      [] tok = "t.backText" -> "t.frontText"
      [] tok = "fontFamily: cfg.fontFamily" -> "fontFamily: ff"
      [] OTHER -> tok

\* re.sub(r'\n\s*const t = theme;\n', '\n', body)
RECURSIVE DropThemeAlias(_)
DropThemeAlias(body) ==
    IF body = <<>> THEN <<>>
    ELSE IF Head(body) = "\n"
            /\ SkipSpace(body, 1) + 2 < Len(body)
            /\ At(body, SkipSpace(body, 1)) = "const t = theme"
            /\ At(body, SkipSpace(body, 1) + 1) = ";"
            /\ At(body, SkipSpace(body, 1) + 2) = "\n"
    THEN <<"\n">> \o DropThemeAlias(SliceFrom(body, SkipSpace(body, 1) + 3))
    ELSE <<Head(body)>> \o DropThemeAlias(Tail(body))

transform_back_to_front(body, template_id) ==
    LET dropped == DropThemeAlias(body)
    IN  <<"\n", " ", " ", "const t = TEMPLATE_FIXED_THEMES[", template_id, "]", ";", "\n">>
            \o [ n \in 1 .. Len(dropped) |-> BackToFrontToken(dropped[n]) ]

\* the replacements of transform_front_to_back that touch a token of the
\* model's bodies
FrontToBackToken(tok) ==
    CASE tok = "t.frontBg" -> "t.backBg"
      [] tok = "t.frontText" -> "t.backText"
      [] tok = "theme.frontBg" -> "theme.backBg"
      [] tok = "theme.frontText" -> "theme.backText"
      [] tok = "fontFamily: ff" -> "fontFamily: cfg.fontFamily"
      [] OTHER -> tok

\* re.sub(r'const t = TEMPLATE_FIXED_THEMES\["[^"]+"\]', 'const t = theme', body)
RECURSIVE UseThemeParameter(_)
UseThemeParameter(body) ==
    IF body = <<>> THEN <<>>
    ELSE IF /\ Len(body) >= 3 /\ body[1] = "const t = TEMPLATE_FIXED_THEMES["
            /\ body[2] \in DOMAIN FUNC_NAMES /\ body[3] = "]"
    THEN <<"const t = theme">> \o UseThemeParameter(SliceFrom(body, 3))
    ELSE <<Head(body)>> \o UseThemeParameter(Tail(body))

transform_front_to_back(body, template_id) ==
    [ n \in 1 .. Len(UseThemeParameter(body)) |-> FrontToBackToken(UseThemeParameter(body)[n]) ]

\* back_suffix.strip()
RECURSIVE Strip(_)
Strip(text) ==
    IF text # <<>> /\ IsSpace(Head(text)) THEN Strip(Tail(text))
    ELSE IF text # <<>> /\ IsSpace(text[Len(text)]) THEN Strip(SubSeq(text, 1, Len(text) - 1))
    ELSE text

\* what the loop body prints for tid
AdapterOutcome(adapter_content, tid) ==
    IF ~find_front_function(adapter_content, FUNC_NAMES[tid]).found THEN "no front"
    ELSE IF ~find_back_registration(adapter_content, tid).found THEN "no back"
    ELSE "swapped"

\* the loop body of process_adapter.  The later region is replaced first, so
\* that the positions of the earlier one stay valid.  Positions count tokens:
\* the result is the script's whenever the two regions found lie one after
\* the other; where they overlap the script cuts the text at offsets that
\* depend on the width of the texts replaced.
SwapLayouts(adapter_content, tid) ==
    IF AdapterOutcome(adapter_content, tid) # "swapped" THEN adapter_content
    ELSE LET front == find_front_function(adapter_content, FUNC_NAMES[tid])
             back == find_back_registration(adapter_content, tid)
             new_front_full ==
                 Slice(adapter_content, front.start, front.brace_start + 1)
                     \o transform_back_to_front(back.body, tid) \o <<"\n", "}">>
             new_back_full ==
                 Slice(adapter_content, back.start, back.brace_start + 1)
                     \o transform_front_to_back(front.body, tid) \o <<"\n">>
                     \o Strip(Slice(adapter_content, back.brace_end, back.end))
         IN  IF front.start < back.start
             THEN LET step == SliceTo(adapter_content, back.start) \o new_back_full
                                \o SliceFrom(adapter_content, back.end)
                  IN  SliceTo(step, front.start) \o new_front_full \o SliceFrom(step, front.end)
             ELSE LET step == SliceTo(adapter_content, front.start) \o new_front_full
                                \o SliceFrom(adapter_content, front.end)
                  IN  SliceTo(step, back.start) \o new_back_full \o SliceFrom(step, back.end)

RECURSIVE AdapterLoop(_, _)
AdapterLoop(adapter_content, todo) ==
    IF todo = <<>> THEN adapter_content
    ELSE AdapterLoop(SwapLayouts(adapter_content, Head(todo)), Tail(todo))

\* the outcome printed for each template id, in the order of the loop
RECURSIVE AdapterOutcomes(_, _)
AdapterOutcomes(adapter_content, todo) ==
    IF todo = <<>> THEN <<>>
    ELSE <<AdapterOutcome(adapter_content, Head(todo))>>
            \o AdapterOutcomes(SwapLayouts(adapter_content, Head(todo)), Tail(todo))

process_adapter(adapter_content) == AdapterLoop(adapter_content, SWAPPED)

\* main(): both files are read, the helpers file is rewritten, then the
\* adapter file.  Here the file is the pair of the two texts.
SwapMainRun(files) ==
    [script |-> "swap-front-back", status |-> "ok", before |-> files,
     theme |-> ThemeOutcomes(files.helpers, SWAPPED),
     layout |-> AdapterOutcomes(files.adapter, SWAPPED),
     after |-> [helpers |-> swap_theme_colors(files.helpers),
                adapter |-> process_adapter(files.adapter)]]

SwapFrontBack ==
    /\ Len(hist) < limit
    /\ hist' = Append(hist, SwapMainRun(file))
    /\ file' = SwapMainRun(file).after
    /\ UNCHANGED limit

\* pieces of the layout bodies of the model
BodyFragments ==
    { <<"t.frontBg">>, <<"theme.backBg">>, <<"{", "}">>, <<"'", "}", "'">>,
      <<Backtick, "$", "{", "'", "{", "'", "}", Backtick>> }

RECURSIVE Bodies(_)
Bodies(n) ==
    IF n = 0 THEN {<<>>}
    ELSE Bodies(n - 1) \cup { s \o f : s \in Bodies(n - 1), f \in BodyFragments }

FrontFunction(body) ==
    <<"function layoutUltraMinimal(", "W", ")", " ", "{">> \o body \o <<"\n", "}">>

BackRegistration(body) ==
    <<"registerBackLayout(\"ultra-minimal\"", ",", " ", "=>", " ", "{">> \o body
        \o <<"\n", "}", ")", ";">>

\* the adapter holds the front function and the back registration of one
\* listed template, in either order, or only one of the two
AdapterTexts ==
    UNION { { <<"a">> \o FrontFunction(f) \o <<"b">> \o BackRegistration(b) \o <<"c">>,
              <<"a">> \o BackRegistration(b) \o <<"b">> \o FrontFunction(f) \o <<"c">>,
              <<"a">> \o FrontFunction(f) \o <<"b", "c">>,
              <<"a", "b">> \o BackRegistration(b) \o <<"c">> } :
            f \in Bodies(MaxBodyFrags), b \in Bodies(1) }

\* the helpers hold a complete theme entry of that template, an entry without
\* backText, or none
HelperTexts ==
    { <<>>,
      << [key |-> "ultra-minimal",
          fields |-> << ThemeField("frontBg", 1, "#111"), ThemeField("backBg", 1, "#222"),
                        ThemeField("frontText", 1, "#222"), ThemeField("backText", 1, "#111") >>] >>,
      << [key |-> "ultra-minimal",
          fields |-> << ThemeField("frontBg", 1, "#111"), ThemeField("backBg", 1, "#222"),
                        ThemeField("frontText", 1, "#222") >>] >> }

InitSwap ==
    /\ \E a \in AdapterTexts : \E h \in HelperTexts : file = [adapter |-> a, helpers |-> h]
    /\ hist = <<>>
    /\ limit = 1

NextSwap == SwapFrontBack

SpecSwap == InitSwap /\ [][NextSwap]_vars

(***************************************************************************)
(* analyze-business-cards.py.  The state is the script's position and what *)
(* it has done so far:                                                     *)
(*   file.exists, file.env  .env.local: whether it can be opened, and its  *)
(*                  lines, each a sequence of tokens                       *)
(*   file.pc        "start", "read", "request", "save", "end", and the     *)
(*                  final positions "done", "exit" (sys.exit) and "crash"  *)
(*                  (uncaught exception)                                   *)
(*   file.i         index of the current image in images, from 0           *)
(*   file.status    exit status once the script has ended, else -1         *)
(*   file.reads, file.requests   how often each image was read and sent    *)
(*   file.reports   per image: "none", "partial" (opened, write failed),   *)
(*                  "saved"                                                *)
(* hist is the list of what the script did and printed, and limit is       *)
(* len(images).                                                            *)
(***************************************************************************)
ANTHROPIC_API_KEY == "ANTHROPIC_API_KEY"

\* line.strip(), key.strip(), value.strip()
StripLine(text) == Strip(text)

\* if line and not line.startswith('#') and '=' in line
IsAssignment(line) ==
    /\ line # <<>>
    /\ Head(line) # "#"
    /\ \E n \in 1 .. Len(line) : line[n] = "="

\* line.split('=', 1)
SplitAssignment(line) ==
    LET eq == SetMin({ n \in 1 .. Len(line) : line[n] = "=" })
    IN  [key |-> StripLine(SubSeq(line, 1, eq - 1)),
         value |-> StripLine(SubSeq(line, eq + 1, Len(line)))]

\* load_env: env_vars as the list of assignments read, in file order
RECURSIVE load_env(_)
load_env(lines) ==
    IF lines = <<>> THEN <<>>
    ELSE IF IsAssignment(StripLine(Head(lines)))
    THEN <<SplitAssignment(StripLine(Head(lines)))>> \o load_env(Tail(lines))
    ELSE load_env(Tail(lines))

\* env.get(name): the value assigned last, found = FALSE standing for None
EnvGet(env, name) ==
    LET hits == { n \in 1 .. Len(env) : env[n].key = <<name>> }
    IN  IF hits = {} THEN [found |-> FALSE, value |-> <<>>]
        ELSE [found |-> TRUE, value |-> env[SetMax(hits)].value]

\* mutant of the key test: only a missing key stops the script
NoApiKeyOnlyNone(api_key) == ~api_key.found

\* not api_key
NoApiKey(api_key) == ~api_key.found \/ api_key.value = <<>>

AnalyzeEvent(event, image, printed) ==
    [script |-> "analyze-business-cards", event |-> event, image |-> image, printed |-> printed]

\* lines 23-29: the environment is loaded and the key is tested
LoadEnv ==
    /\ file.pc = "start"
    /\ IF ~file.exists
       THEN /\ file' = [file EXCEPT !.pc = "crash", !.status = 1]
            /\ hist' = Append(hist, AnalyzeEvent("env unreadable", -1, "traceback"))
       ELSE IF NoApiKey(EnvGet(load_env(file.env), ANTHROPIC_API_KEY))
       THEN /\ file' = [file EXCEPT !.pc = "exit", !.status = 1]
            /\ hist' = Append(hist, AnalyzeEvent("no key", -1, "ERROR: ANTHROPIC_API_KEY not found in .env.local"))
       ELSE /\ file' = [file EXCEPT !.pc = IF limit = 0 THEN "end" ELSE "read"]
            /\ hist' = Append(hist, AnalyzeEvent("client", -1, ""))
    /\ UNCHANGED limit

\* mutant of the loop: the same image is taken again
NextImageAgain(i) == i

\* where the loop goes after image i is finished
NextImage(i) == i + 1

\* lines 110-121: the image is opened and read, outside the try
ReadImage ==
    /\ file.pc = "read"
    /\ \E readable \in BOOLEAN :
        IF readable
        THEN /\ file' = [file EXCEPT !.pc = "request", !.reads[file.i] = @ + 1]
             /\ hist' = Append(hist, AnalyzeEvent("read", file.i, "Analyzing"))
        ELSE /\ file' = [file EXCEPT !.pc = "crash", !.status = 1]
             /\ hist' = Append(hist, AnalyzeEvent("read failed", file.i, "traceback"))
    /\ UNCHANGED limit

\* the position after the except clause, or after the try when nothing was raised
AfterImage(f) ==
    [f EXCEPT !.i = NextImage(f.i),
              !.pc = IF NextImage(f.i) < limit THEN "read" ELSE "end"]

\* lines 124-149 and 160-161: the request, and the except clause when it raises
CallVision ==
    /\ file.pc = "request"
    /\ \E raised \in BOOLEAN :
        IF raised
        THEN /\ file' = AfterImage([file EXCEPT !.requests[file.i] = @ + 1])
             /\ hist' = Append(hist, AnalyzeEvent("request failed", file.i, "Error analyzing"))
        ELSE /\ file' = [file EXCEPT !.pc = "save", !.requests[file.i] = @ + 1]
             /\ hist' = Append(hist, AnalyzeEvent("request", file.i, ""))
    /\ UNCHANGED limit

\* lines 152-158 and 160-161: the report is written, and the except clause
\* when open or write raises
SaveReport ==
    /\ file.pc = "save"
    /\ \E outcome \in {"saved", "open raised", "write raised"} :
        /\ file' = AfterImage([file EXCEPT !.reports[file.i] =
                        CASE outcome = "saved" -> "saved"
                          [] outcome = "open raised" -> @
                          [] outcome = "write raised" -> "partial"])
        /\ hist' = Append(hist,
                     IF outcome = "saved" THEN AnalyzeEvent("saved", file.i, "Saved to")
                     ELSE AnalyzeEvent("save failed", file.i, "Error analyzing"))
    /\ UNCHANGED limit

\* lines 163-165
Finish ==
    /\ file.pc = "end"
    /\ file' = [file EXCEPT !.pc = "done", !.status = 0]
    /\ hist' = Append(hist, AnalyzeEvent("finish", -1, "All analyses saved to"))
    /\ UNCHANGED limit

\* lines of .env.local in the model
EnvLines ==
    { <<>>,
      <<"#", "ANTHROPIC_API_KEY", "=", "sk">>,
      <<"ANTHROPIC_API_KEY">>,
      <<"ANTHROPIC_API_KEY", "=", "sk">>,
      <<"ANTHROPIC_API_KEY", "=">>,
      <<"ANTHROPIC_API_KEY", " ", "=", " ">>,
      <<" ", "ANTHROPIC_API_KEY", "=", "sk", "=", "x">>,
      <<"NEXT_PUBLIC_URL", "=", "x">> }

InitAnalyze ==
    /\ \E exists \in BOOLEAN : \E env \in SeqsUpTo(EnvLines, MaxEnvLines) :
        file = [exists |-> exists, env |-> IF exists THEN env ELSE <<>>,
                pc |-> "start", i |-> 0, status |-> -1,
                reads |-> [n \in 0 .. (MaxImages - 1) |-> 0],
                requests |-> [n \in 0 .. (MaxImages - 1) |-> 0],
                reports |-> [n \in 0 .. (MaxImages - 1) |-> "none"]]
    /\ hist = <<>>
    /\ limit = MaxImages

NextAnalyze == LoadEnv \/ ReadImage \/ CallVision \/ SaveReport \/ Finish

SpecAnalyze == InitAnalyze /\ [][NextAnalyze]_vars

(***************************************************************************)
(* Claims about the section rewriters.                                     *)
(***************************************************************************)
\* Two consecutive successful runs of the same rewriter: hist[i], hist[i + 1].
Rerun(i) ==
    /\ i \in 1 .. (Len(hist) - 1)
    /\ hist[i].script \in Rewriters
    /\ hist[i + 1].script = hist[i].script
    /\ hist[i].status = "ok"
    /\ hist[i + 1].status = "ok"

\* C1 (as stated): re-running a section rewriter on the file it has just
\* patched never reproduces that file; the second run yields a different
\* file.
C1_RerunGivesDifferentFile ==
    \A i \in 1 .. (Len(hist) - 1) :
        Rerun(i) => hist[i + 1].after # hist[i].after

\* C1 (amended): the second run reproduces the already-patched file whenever
\* the first run found the end marker after the start marker; it yields a
\* longer file (the text from the end marker on is appended once more) only
\* when the end marker first occurs before the start marker.
C1_RerunIdempotentWhenOrdered ==
    \A i \in 1 .. (Len(hist) - 1) :
        Rerun(i) =>
            /\ hist[i].end > hist[i].start => hist[i + 1].after = hist[i].after
            /\ hist[i].end < hist[i].start =>
                   Len(hist[i + 1].after) > Len(hist[i].after)

\* C1 witness: a rewriter changed a file whose markers are in order and was
\* then run again on its own output.
C1_Witness ==
    \E i \in 1 .. (Len(hist) - 1) :
        /\ Rerun(i)
        /\ hist[i].end > hist[i].start + 1
        /\ hist[i].after # hist[i].before

C8_OneBackLayoutPerLuxuryId ==
    \A i \in 1 .. Len(hist) :
        (hist[i].script = "luxury" /\ hist[i].status = "ok") =>
            \A id \in LuxuryIds : Count(hist[i].after, RegOf(id)) = 1

\* the luxury script after the creative script, and the other way round
CreativeThenLuxury(f) == LuxuryRun(RewriteRun("creative", f).after)
LuxuryThenCreative(f) == RewriteRun("creative", LuxuryRun(f).after)

BothOrdersSucceed(f) ==
    /\ RewriteRun("creative", f).status = "ok"
    /\ CreativeThenLuxury(f).status = "ok"
    /\ LuxuryRun(f).status = "ok"
    /\ LuxuryThenCreative(f).status = "ok"

\* hist[i] is a successful luxury run and hist[i + 1] a successful creative
\* run on its output
LuxuryThenCreativeAt(i) ==
    /\ i \in 1 .. (Len(hist) - 1)
    /\ hist[i].script = "luxury" /\ hist[i].status = "ok"
    /\ hist[i + 1].script = "creative" /\ hist[i + 1].status = "ok"

\* C9 (as stated): from the same file the two scripts give the same final
\* file in either order, and the six luxury registerBackLayout blocks are
\* present in both outcomes.
C9_OrderIndependent ==
    \A i \in 1 .. (Len(hist) - 1) :
        (LuxuryThenCreativeAt(i) /\ BothOrdersSucceed(hist[i].before)) =>
            /\ hist[i + 1].after = CreativeThenLuxury(hist[i].before).after
            /\ \A id \in LuxuryIds :
                   /\ Count(hist[i + 1].after, RegOf(id)) >= 1
                   /\ Count(CreativeThenLuxury(hist[i].before).after, RegOf(id)) >= 1

\* C9 (amended): the two scripts are order dependent.  The luxury script
\* puts its six registerBackLayout blocks after the last registerBackLayout
\* block before the LUXURY marker; when the LUXURY marker precedes the
\* dispatcher marker and that place lies inside the CREATIVE section, a
\* creative run that follows removes all six again, while the
\* order creative-then-luxury keeps them, so the two final files differ.
C9_CreativeLastRemovesLuxuryBacks ==
    \A i \in 1 .. (Len(hist) - 1) :
        (/\ LuxuryThenCreativeAt(i)
         /\ BothOrdersSucceed(hist[i].before)
         /\ hist[i].start < hist[i].end
         /\ hist[i + 1].start < hist[i].ins
         /\ hist[i].ins <= hist[i + 1].end) =>
            /\ \A id \in LuxuryIds :
                   /\ Count(hist[i + 1].after, RegOf(id))
                          < Count(hist[i].after, RegOf(id))
                   /\ Count(CreativeThenLuxury(hist[i].before).after, RegOf(id)) >= 1
                   /\ Count(hist[i + 1].after, RegOf(id))
                          < Count(CreativeThenLuxury(hist[i].before).after, RegOf(id))
            /\ hist[i + 1].after # CreativeThenLuxury(hist[i].before).after

\* C9 witness: luxury, then creative, on a file whose CREATIVE section holds
\* the last registerBackLayout block before the LUXURY marker.
C9_Witness ==
    \E i \in 1 .. (Len(hist) - 1) :
        /\ LuxuryThenCreativeAt(i)
        /\ BothOrdersSucceed(hist[i].before)
        /\ hist[i].start < hist[i].end
        /\ hist[i + 1].start < hist[i].ins
        /\ hist[i].ins <= hist[i + 1].end
        /\ \A id \in LuxuryIds : Count(hist[i + 1].after, RegOf(id)) = 0

(***************************************************************************)
(* Claims about the single-function rewriters.                             *)
(***************************************************************************)
IsFixRun(r) == r.script \in FixScripts \cup {"cyan-tech"}

\* C3: when a single-function rewriter finds its start signature but no end
\* marker after it, it stops with a warning and leaves the file as it was.
C3_NoEndMarkerLeavesFile ==
    \A i \in 1 .. Len(hist) :
        (IsFixRun(hist[i]) /\ hist[i].start >= 0
            /\ Find(hist[i].before, FixStart(hist[i].script)) >= 0
            /\ hist[i].endm = -1) =>
            /\ hist[i].status = "error"
            /\ hist[i].after = hist[i].before

(***************************************************************************)
(* Claims about all marker-locating scripts.                               *)
(***************************************************************************)
\* the start marker or function signature a script looks for
StartOf(script) ==
    IF script \in Rewriters THEN StartMarker(script)
    ELSE IF script = "luxury" THEN LUXURY_MARKER
    ELSE FixStart(script)

\* the marker that ends the replaced text
EndOf(script) ==
    IF script \in Rewriters THEN EndMarker(script)
    ELSE IF script = "luxury" THEN LAYOUT_MAP_MARKER
    ELSE FixEnd(script)

\* C2: a script whose start marker (or function signature) does not occur in
\* the file stops with an error before the file is written, and the file is
\* unchanged.
C2_MissingStartLeavesFile ==
    \A i \in 1 .. Len(hist) :
        Find(hist[i].before, StartOf(hist[i].script)) = -1 =>
            /\ hist[i].status = "error"
            /\ hist[i].after = hist[i].before
            /\ file = hist[Len(hist)].after

\* C2 witness: a script ran on a file that holds its end marker but not its
\* start marker, and stopped.
C2_Witness ==
    \E i \in 1 .. Len(hist) :
        /\ Find(hist[i].before, StartOf(hist[i].script)) = -1
        /\ Find(hist[i].before, EndOf(hist[i].script)) >= 0
        /\ hist[i].status = "error"

(***************************************************************************)
(* Claims about find_matching_brace.                                       *)
(***************************************************************************)
\* The brace that closes the one before pos, by the lexical rules the claim
\* names: stack holds "B" for an open brace, "T" for an open template
\* literal and "E" for an open ${ of a template literal; strings, template
\* text and comments are skipped wherever they occur, template expressions
\* included.  -1 when the text ends first.
RECURSIVE ClosingBrace(_, _, _)
ClosingBrace(content, pos, stack) ==
    IF pos >= Len(content) THEN -1
    ELSE LET ch == At(content, pos)
             n == Len(stack)
             pop == SubSeq(stack, 1, n - 1)
             nextIs(c) == pos + 1 < Len(content) /\ At(content, pos + 1) = c
             strEnd == SkipQuoted(content, pos + 1, ch)
             lineEnd == SkipLineComment(content, pos)
             blockEnd == SkipBlockComment(content, pos + 2)
         IN  IF stack[n] = "T"
             THEN IF ch = "\\" THEN ClosingBrace(content, pos + 2, stack)
                  ELSE IF ch = Backtick THEN ClosingBrace(content, pos + 1, pop)
                  ELSE IF ch = "$" /\ nextIs("{")
                       THEN ClosingBrace(content, pos + 2, Append(stack, "E"))
                  ELSE ClosingBrace(content, pos + 1, stack)
             ELSE IF ch = "{" THEN ClosingBrace(content, pos + 1, Append(stack, "B"))
                  ELSE IF ch = "}"
                       THEN IF n = 1 THEN pos ELSE ClosingBrace(content, pos + 1, pop)
                  ELSE IF ch \in {"\"", "'"}
                       THEN ClosingBrace(content, strEnd + 1, stack)
                  ELSE IF ch = Backtick
                       THEN ClosingBrace(content, pos + 1, Append(stack, "T"))
                  ELSE IF ch = "/" /\ nextIs("/")
                       THEN ClosingBrace(content, lineEnd + 1, stack)
                  ELSE IF ch = "/" /\ nextIs("*")
                       THEN ClosingBrace(content, blockEnd + 2, stack)
                  ELSE ClosingBrace(content, pos + 1, stack)

\* C4: when the brace at open_pos is closed later in the text,
\* find_matching_brace returns the index of the '}' that closes it, braces
\* inside strings, template literals (their ${...} expressions included) and
\* comments not being counted.
C4_ReturnsClosingBrace ==
    \A i \in 1 .. Len(hist) :
        (hist[i].script = "find_matching_brace"
            /\ ClosingBrace(hist[i].before, hist[i].open_pos + 1, <<"B">>) # -1) =>
            hist[i].result = ClosingBrace(hist[i].before, hist[i].open_pos + 1, <<"B">>)

(***************************************************************************)
(* Claims about add-logo-to-templates.py.                                  *)
(***************************************************************************)
\* the line of the closing brace of the function that starts at line start,
\* or -1 when the text ends or another function starts before it
RECURSIVE ClosingLine(_, _, _, _)
ClosingLine(lines, start, i, depth) ==
    IF i >= Len(lines) THEN -1
    ELSE IF i > start /\ lines[i + 1][1] = "fn" THEN -1
    ELSE IF depth + BraceDelta(lines[i + 1]) <= 0 THEN i
    ELSE ClosingLine(lines, start, i + 1, depth + BraceDelta(lines[i + 1]))

\* the lines of the body of the first function named f
BodyLines(lines, f) ==
    FunctionStart(lines, f) .. ClosingLine(lines, FunctionStart(lines, f), FunctionStart(lines, f), 0)

\* f is a complete function whose own body returns layers at its top level
Complete(lines, f) ==
    /\ FunctionStart(lines, f) # -1
    /\ ClosingLine(lines, FunctionStart(lines, f), FunctionStart(lines, f), 0) # -1
    /\ find_function_range(lines, f).ret \in BodyLines(lines, f)

LogoCalls(lines, f) ==
    Cardinality({ i \in BodyLines(lines, f) : lines[i + 1] = <<"logo">> })

ListedFunctions ==
    { templates_no_company[i] : i \in 1 .. Len(templates_no_company) }
        \cup { templates_with_company[i][1] : i \in 1 .. Len(templates_with_company) }

\* C5: after a run of add-logo-to-templates.py every listed function that is
\* complete in the file holds exactly one buildWatermarkLogo call, whether or
\* not it held one before the run.
C5_ExactlyOneLogoCall ==
    \A i \in 1 .. Len(hist) :
        (hist[i].script = "add-logo-to-templates" /\ hist[i].status = "ok") =>
            \A f \in ListedFunctions :
                (Complete(hist[i].before, f) /\ Complete(hist[i].after, f)) =>
                    LogoCalls(hist[i].after, f) = 1


(***************************************************************************)
(* Claims about fix-logo-company.py.                                       *)
(***************************************************************************)
\* the line (counted from 1) that closes the block opened at line n, or 0
RECURSIVE BlockEnd1(_, _, _)
BlockEnd1(lines, n, depth) ==
    IF n > Len(lines) THEN 0
    ELSE IF depth + BraceDelta(lines[n].text) <= 0 THEN n
    ELSE BlockEnd1(lines, n + 1, depth + BraceDelta(lines[n].text))

\* the guard at line g (counted from 1) encloses exactly one complete Company
\* push block and nothing else
GuardEnclosesOneBlock(lines, g) ==
    /\ g < Len(lines)
    /\ lines[g + 1].text = <<"push">>
    /\ LET e == BlockEnd1(lines, g + 1, 0)
       IN  /\ e # 0
           /\ e < Len(lines)
           /\ lines[e].text = <<"pushend">>
           /\ lines[e + 1].text = <<"close">>
           /\ \E m \in (g + 2) .. (e - 1) : IsCompanyName(lines[m])

\* the text holds no guard yet, its push blocks are complete and not nested,
\* and every Company line lies inside one of them
RECURSIVE PlainBlocks(_, _, _)
PlainBlocks(lines, n, inside) ==
    IF n > Len(lines) THEN ~inside
    ELSE CASE lines[n].text = <<"push">> -> ~inside /\ PlainBlocks(lines, n + 1, TRUE)
           [] lines[n].text = <<"pushend">> -> inside /\ PlainBlocks(lines, n + 1, FALSE)
           [] IsCompanyName(lines[n]) -> inside /\ PlainBlocks(lines, n + 1, inside)
           [] lines[n].text \in {<<"guard">>, <<"close">>} -> FALSE
           [] OTHER -> PlainBlocks(lines, n + 1, inside)

\* C6: in a file of complete push blocks that holds no guard yet, every guard
\* that a run of fix-logo-company.py inserts directly precedes the push line of
\* one complete Company block and its closing brace directly follows the
\* block's last line, so that no block is wrapped twice, however many
\* buildWatermarkLogo calls lie near the block.
C6_GuardEnclosesOneBlock ==
    \A i \in 1 .. Len(hist) :
        (/\ hist[i].script = "fix-logo-company"
         /\ PlainBlocks(hist[i].before, 1, FALSE)) =>
            \A g \in 1 .. Len(hist[i].after) :
                hist[i].after[g].text = <<"guard">> =>
                    GuardEnclosesOneBlock(hist[i].after, g)


(***************************************************************************)
(* Claims about fix-contact-overflow.py.                                   *)
(***************************************************************************)
IsCall(line) == line.text \in {<<"call">>, <<"call1">>}

\* the positions (counted from 0) of the contactWithIcons calls
Calls(lines) == { p \in 0 .. (Len(lines) - 1) : IsCall(lines[p + 1]) }

\* the number of calls above the call at line p
Rank(lines, p) == Cardinality({ q \in Calls(lines) : q < p })

\* the line that closes the call at line p, wherever it is, or -1
CloseOfCall(lines, p) ==
    IF \E k \in p .. (Len(lines) - 1) : HasClose(lines[k + 1])
    THEN SetMin({ k \in p .. (Len(lines) - 1) : HasClose(lines[k + 1]) })
    ELSE -1

Listed(p) == \E n \in 1 .. Len(call_lines) : call_lines[n] = p + 1

\* the number of maxY properties between the call line at p and its closing;
\* a call written on one line has no property line of its own
MaxYInside(lines, p) ==
    Cardinality({ m \in p .. CloseOfCall(lines, p) : HasMaxY(lines[m + 1]) })

\* the call at line p of the text before the run is listed and its closing is
\* one of the 20 lines that start with the call line
ListedAndClosed(before, p) ==
    /\ Listed(p)
    /\ CloseOfCall(before, p) # -1
    /\ CloseOfCall(before, p) - p < CloseSearchSpan

\* C7: after a run of fix-contact-overflow.py every listed contactWithIcons
\* call whose closing lies within 20 lines of the call line has exactly one
\* maxY property between its call line and its closing line.
C7_OneMaxYPerListedCall ==
    \A i \in 1 .. Len(hist) :
        hist[i].script = "fix-contact-overflow" =>
            \A p \in Calls(hist[i].before) :
                ListedAndClosed(hist[i].before, p) =>
                    \E q \in Calls(hist[i].after) :
                        /\ Rank(hist[i].after, q) = Rank(hist[i].before, p)
                        /\ MaxYInside(hist[i].after, q) = 1

(***************************************************************************)
(* Claims about swap-front-back.py.                                        *)
(***************************************************************************)
ColourFields == {"frontBg", "backBg", "frontText", "backText"}

\* the field that trades values with name
Partner(name) ==
    CASE name = "frontBg" -> "backBg"
      [] name = "backBg" -> "frontBg"
      [] name = "frontText" -> "backText"
      [] name = "backText" -> "frontText"

\* entry new is entry old with the four colours exchanged and all else kept
Exchanged(old, new) ==
    /\ new.key = old.key
    /\ Len(new.fields) = Len(old.fields)
    /\ \A n \in 1 .. Len(old.fields) :
          /\ new.fields[n].name = old.fields[n].name
          /\ new.fields[n].space = old.fields[n].space
          /\ new.fields[n].value =
                IF old.fields[n].name \in ColourFields
                THEN FieldMatch(old, Partner(old.fields[n].name))
                ELSE old.fields[n].value

\* C11: in the first run of swap_theme_colors, every entry of a listed
\* template is either unchanged or has its four colours exchanged and
\* everything else kept, and every other entry is unchanged.
C11_SwapsAllFourOrNone ==
    (Len(hist) >= 1 /\ hist[1].script = "swap_theme_colors") =>
        /\ Len(hist[1].after) = Len(hist[1].before)
        /\ \A n \in 1 .. Len(hist[1].before) :
              \/ hist[1].after[n] = hist[1].before[n]
              \/ /\ \E k \in 1 .. Len(SWAPPED) : SWAPPED[k] = hist[1].before[n].key
                 /\ Exchanged(hist[1].before[n], hist[1].after[n])

\* the first function named f is closed and its own body has no
\* 'return layers;' line at its top level
NoOwnReturn(lines, f) ==
    /\ FunctionStart(lines, f) # -1
    /\ ClosingLine(lines, FunctionStart(lines, f), FunctionStart(lines, f), 0) # -1
    /\ \A n \in BodyLines(lines, f) :
          ~(IsReturn(lines[n + 1]) /\ ReturnLine(lines, FunctionStart(lines, f), 0) = n)

\* the braces of the text are balanced, functions start outside any block and
\* every return statement lies inside a function
RECURSIVE WellNested(_, _, _)
WellNested(lines, n, depth) ==
    IF n > Len(lines) THEN depth = 0
    ELSE /\ (lines[n][1] = "fn" => depth = 0)
         /\ (lines[n][1] # "fn" => depth >= 1)
         /\ depth + BraceDelta(lines[n]) >= 0
         /\ WellNested(lines, n + 1, depth + BraceDelta(lines[n]))

\* no function is defined twice
DistinctFunctions(lines) ==
    \A a, b \in 1 .. Len(lines) :
        (lines[a][1] = "fn" /\ lines[a] = lines[b]) => a = b

\* C12: in a well nested file, a listed function that is absent, or whose own
\* body has no top-level 'return layers;', gets a warning and no inserted
\* line, is not counted as updated, and the script goes on to every remaining
\* listed function.
C12_MissingFunctionIsSkipped ==
    \A i \in 1 .. Len(hist) :
        (/\ hist[i].script = "add-logo-to-templates"
         /\ WellNested(hist[i].before, 1, 0)
         /\ DistinctFunctions(hist[i].before)) =>
            \A k \in 1 .. Len(hist[i].steps) :
                (\/ FunctionStart(hist[i].steps[k].before, hist[i].steps[k].func) = -1
                 \/ NoOwnReturn(hist[i].steps[k].before, hist[i].steps[k].func)) =>
                    /\ hist[i].steps[k].warned
                    /\ hist[i].steps[k].after = hist[i].steps[k].before
                    /\ ~hist[i].steps[k].counted
                    /\ hist[i].steps[k].guard # "crash"
                    /\ (k < Len(templates_no_company) + Len(templates_with_company)
                          => Len(hist[i].steps) > k)

\* the brace depth at which line p (counted from 0) of the function that
\* starts at line start stands
RECURSIVE DepthAt(_, _, _)
DepthAt(lines, start, p) ==
    IF p <= start THEN 0
    ELSE DepthAt(lines, start, p - 1) + BraceDelta(lines[p])

\* C18: in a well nested file, whenever insert_before_return inserts lines
\* for a function, it inserts them in that function's own body, directly
\* before a 'return layers;' that stands at the top level of the body.
C18_InsertsInOwnBody ==
    \A i \in 1 .. Len(hist) :
        (/\ hist[i].script = "add-logo-to-templates"
         /\ WellNested(hist[i].before, 1, 0)
         /\ DistinctFunctions(hist[i].before)) =>
            \A k \in 1 .. Len(hist[i].steps) :
                LET s == hist[i].steps[k]
                IN  s.counted =>
                      /\ s.at \in BodyLines(s.before, s.func)
                      /\ IsReturn(s.before[s.at + 1])
                      /\ DepthAt(s.before, FunctionStart(s.before, s.func), s.at) = 1

\* the company push block of function f is enclosed in a guard: between the
\* guard line and the push line of the block there are only comment and blank
\* lines
AlreadyGuarded(lines, f, company_name_text) ==
    /\ FunctionStart(lines, f) # -1
    /\ \E i \in FunctionStart(lines, f) .. (Len(lines) - 1) :
          /\ HasCompanyText(lines[i + 1], company_name_text)
          /\ \A j \in FunctionStart(lines, f) .. (i - 1) :
                ~HasCompanyText(lines[j + 1], company_name_text)
          /\ \E p \in FunctionStart(lines, f) .. i :
                /\ lines[p + 1] = <<"push">>
                /\ \A q \in (p + 1) .. i : lines[q + 1] # <<"push">>
                /\ \E g \in FunctionStart(lines, f) .. (p - 1) :
                      /\ lines[g + 1] = <<"guard">>
                      /\ \A x \in (g + 1) .. (p - 1) :
                            lines[x + 1] \in {<<"comment">>, <<"blank">>}

\* C19: when wrap_company_with_guard reaches the company line of a function
\* whose push block is already enclosed in a guard, it reports 'already
\* guarded' and leaves all lines unchanged.
C19_NeverGuardsTwice ==
    \A i \in 1 .. Len(hist) :
        hist[i].script = "add-logo-to-templates" =>
            \A k \in 1 .. Len(hist[i].steps) :
                LET s == hist[i].steps[k]
                IN  (/\ s.guard \in {"already", "guarded"}
                     /\ AlreadyGuarded(s.wrapin, s.func, s.marker)) =>
                        /\ s.guard = "already"
                        /\ s.after = s.wrapin

\* C20: on every input find_matching_brace ends and returns an index i with
\* open_pos < i <= len(content) - 1.
C20_ResultInsideText ==
    \A i \in 1 .. Len(hist) :
        hist[i].script = "find_matching_brace" =>
            /\ hist[i].open_pos < hist[i].result
            /\ hist[i].result <= Len(hist[i].before) - 1

(***************************************************************************)
(* Claims about swap-front-back.py, main() and process_adapter.            *)
(***************************************************************************)
\* C16: after main() every listed template has either both its theme colours
\* and its layout bodies swapped or neither of the two.
C16_ThemeAndLayoutTogether ==
    \A i \in 1 .. Len(hist) :
        hist[i].script = "swap-front-back" =>
            \A n \in 1 .. Len(SWAPPED) :
                (hist[i].theme[n] = "swapped") <=> (hist[i].layout[n] = "swapped")

\* the front function of tid as the text delimits it: from the function
\* keyword to the brace that closes the body
FrontRegion(content, tid) ==
    LET start == SearchToken(content, FunctionPattern(FUNC_NAMES[tid]))
        open == PyFind(content, <<"{">>, start + 1, Len(content))
    IN  [start |-> start, end |-> ClosingBrace(content, open + 1, <<"B">>) + 1]

\* the back registration of tid as the text delimits it: from
\* registerBackLayout to the ');' after the brace that closes the body
BackRegion(content, tid) ==
    LET start == SearchToken(content, RegistrationPattern(tid))
        open == ArrowBrace(content, start + 1)
    IN  [start |-> start,
         end |-> CloseOfRegistration(content, ClosingBrace(content, open + 1, <<"B">>) + 1)]

\* after keeps the text of before that lies before first, between first and
\* second, and after second
Framed(before, after, first, second) ==
    LET between == Slice(before, first.end, second.start)
        rest == SliceFrom(before, second.end)
    IN  /\ SliceTo(after, first.start) = SliceTo(before, first.start)
        /\ Len(after) >= first.start + Len(between) + Len(rest)
        /\ SliceFrom(after, Len(after) - Len(rest)) = rest
        /\ \E k \in first.start .. (Len(after) - Len(rest) - Len(between)) :
               Slice(after, k, k + Len(between)) = between

\* the two regions the script finds for tid lie one after the other
RegionsApart(content, tid) ==
    LET front == find_front_function(content, FUNC_NAMES[tid])
        back == find_back_registration(content, tid)
    IN  \/ front.end <= back.start
        \/ back.end <= front.start

\* C17: when process_adapter swaps a template whose front function and back
\* registration are both in the file, the text before the first of the two,
\* between them and after the second is unchanged, whichever of the two comes
\* first.
C17_OnlyTheTwoRegionsChange ==
    \A i \in 1 .. Len(hist) :
        (/\ hist[i].script = "swap-front-back"
         /\ hist[i].layout[1] = "swapped"
         /\ RegionsApart(hist[i].before.adapter, SWAPPED[1])) =>
            LET before == hist[i].before.adapter
                front == FrontRegion(before, SWAPPED[1])
                back == BackRegion(before, SWAPPED[1])
            IN  IF front.start < back.start
                THEN Framed(before, hist[i].after.adapter, front, back)
                ELSE Framed(before, hist[i].after.adapter, back, front)

(***************************************************************************)
(* Claims about analyze-business-cards.py.                                 *)
(***************************************************************************)
\* the events of a failed request or a failed save
Failures == {"request failed", "save failed"}

\* C13: every listed image is sent to the vision API at most once; when the
\* request or the saving of the report raises, the error is printed, the
\* image is not tried again, nothing more is saved for it, and the script
\* goes on with the next image.
C13_SentOnceNoRetry ==
    /\ \A n \in DOMAIN file.requests : file.requests[n] <= 1
    /\ \A k \in 1 .. Len(hist) :
        hist[k].event \in Failures =>
            /\ hist[k].printed = "Error analyzing"
            /\ \A m \in (k + 1) .. Len(hist) : hist[m].image # hist[k].image
            /\ k < Len(hist) =>
                   IF hist[k].image + 1 < limit
                   THEN /\ hist[k + 1].event \in {"read", "read failed"}
                        /\ hist[k + 1].image = hist[k].image + 1
                   ELSE hist[k + 1].event = "finish"
            /\ k = Len(hist) =>
                   /\ file.i = hist[k].image + 1
                   /\ file.pc = IF file.i < limit THEN "read" ELSE "end"

\* C13 witness: the request for the first image raised, the saving of the
\* second report raised, and the third image was analysed and saved.
C13_Witness ==
    /\ \E k \in 1 .. Len(hist) : hist[k].event = "request failed" /\ hist[k].image = 0
    /\ \E k \in 1 .. Len(hist) : hist[k].event = "save failed" /\ hist[k].image = 1
    /\ \E k \in 1 .. Len(hist) : hist[k].event = "saved" /\ hist[k].image = 2

\* C14: when an image file cannot be read, the failure is caught and printed
\* and the remaining images are still analysed.
C14_ReadFailureIsCaught ==
    \A k \in 1 .. Len(hist) :
        hist[k].event = "read failed" =>
            /\ hist[k].printed = "Error analyzing"
            /\ file.pc # "crash"
            /\ file.i > hist[k].image

\* line n of lines assigns the key: the key name, then '=', with nothing but
\* white space before and between
AssignsKey(line, eq) ==
    /\ eq \in 1 .. Len(line) /\ line[eq] = "="
    /\ \E p \in 1 .. (eq - 1) :
        /\ line[p] = ANTHROPIC_API_KEY
        /\ \A q \in 1 .. (eq - 1) : q # p => line[q] \in {" ", "\n"}

KeyLines(lines) ==
    { n \in 1 .. Len(lines) : \E eq \in 1 .. Len(lines[n]) : AssignsKey(lines[n], eq) }

\* the text after the first '=' of the line is empty or white space
EmptyValue(line) ==
    LET eq == SetMin({ n \in 1 .. Len(line) : line[n] = "=" })
    IN  \A q \in (eq + 1) .. Len(line) : line[q] \in {" ", "\n"}

\* .env.local has no ANTHROPIC_API_KEY line, or the value it gives is empty
KeyMissing(lines) ==
    \/ KeyLines(lines) = {}
    \/ EmptyValue(lines[SetMax(KeyLines(lines))])

\* C15: when .env.local has no ANTHROPIC_API_KEY line or an empty value for
\* it, the script prints an error and exits with status 1 before any image
\* is read, any request is made and any report is written.
C15_NoKeyStopsFirst ==
    (file.exists /\ KeyMissing(file.env)) =>
        /\ file.pc \in {"start", "exit"}
        /\ \A n \in DOMAIN file.reads :
            file.reads[n] = 0 /\ file.requests[n] = 0 /\ file.reports[n] = "none"
        /\ file.pc = "exit" =>
            /\ file.status = 1
            /\ Len(hist) = 1
            /\ hist[1].printed = "ERROR: ANTHROPIC_API_KEY not found in .env.local"

\* C15 witness: the script has stopped on a file whose ANTHROPIC_API_KEY line
\* gives an empty value.
C15_Witness ==
    /\ file.exists
    /\ KeyLines(file.env) # {}
    /\ KeyMissing(file.env)
    /\ file.pc = "exit"

====
